---- MODULE Spec2Model ----
(***************************************************************************)
(* Model of the DownloadCoalescer durable object (src/src/coalescer.ts).   *)
(*                                                                         *)
(* The object runs on a single-threaded event loop: a handler runs without *)
(* interruption up to its next await.  Every action below is one such run: *)
(* a join (fetch), one resumption of fetchAndBroadcast after an await, or  *)
(* one webSocketClose / webSocketError notification.                       *)
(*                                                                         *)
(* Strings are sequences of one-character strings.  A message (error body, *)
(* exception message) is represented by its length.                        *)
(***************************************************************************)
EXTENDS Integers, Sequences, FiniteSets, TLC

(***************************************************************************)
(* Bounds of the model.                                                    *)
(***************************************************************************)
MaxSubs == 2          \* joins (WebSocket upgrades) accepted in one behaviour
MaxSessions == 2      \* FileSession objects allocated in one behaviour
MaxChunks == 2        \* body reads that yield a value, per origin response
MaxStrLen == 2        \* length of the strings fed to the key builder

(***************************************************************************)
(* Program constants.                                                      *)
(***************************************************************************)
MaxMessageLen == 500  \* errorBody.slice(0, 500), errorMessage.slice(0, 500)
CloseNormal == 1000   \* client.close(1000, 'Complete')
GenericStatus == 500  \* status of the error frame built in the catch block
SwitchingProtocols == 101  \* status of the Response that fetch() returns
UpgradeRequired == 426  \* status returned when Upgrade is not 'websocket'
BadRequest == 400  \* status returned when the url parameter is missing

Null == -1            \* null / undefined for the nullable numeric fields

(***************************************************************************)
(* Inputs.                                                                 *)
(***************************************************************************)
Absent == <<"absent">>            \* searchParams.get('range') returned null

\* (url parameter, range parameter) of the joins
JoinInputs ==
    { << <<"a">>, Absent >>,
      << <<"a">>, <<>> >>,
      << <<"a">>, <<"|", "b">> >>,
      << <<"a", "|">>, <<"b">> >> }

\* what the origin answers: status, header snapshot, whether response.body exists
OriginResponses ==
    { [status |-> 200, headers |-> 1, body |-> TRUE],
      [status |-> 206, headers |-> 2, body |-> TRUE],
      [status |-> 200, headers |-> 2, body |-> FALSE],
      [status |-> 404, headers |-> 1, body |-> TRUE] }

\* lengths of the origin's error body and of exception messages
MessageLens == {0, 501}

(***************************************************************************)
(* Pure helpers.                                                           *)
(***************************************************************************)
\* url.searchParams.get('range') || ''
RangeOf(param) == IF param = Absent \/ param = <<>> THEN <<>> ELSE param

\* faulty variant: the range is left out of the key
BuildKey_UrlOnly(b2Url, rangeHeader) == b2Url \o <<"|">>

\* `${b2Url}|${rangeHeader}`
BuildKey(b2Url, rangeHeader) == b2Url \o <<"|">> \o rangeHeader

\* response.ok
Ok(status) == status >= 200 /\ status <= 299

\* faulty variant: the message is sent whole
Slice_Whole(len) == len

\* message.slice(0, 500), on lengths
Slice(len) == IF len > MaxMessageLen THEN MaxMessageLen ELSE len

\* the i-th value the body reader yields: a Uint8Array view on a buffer
ChunkValue(i, empty) ==
    [buffer |-> <<0, i>>, byteOffset |-> 1, byteLength |-> IF empty THEN 0 ELSE 1]

\* faulty variant: the view's whole backing buffer is sent
BufferSlice_WholeBuffer(data) == data.buffer

\* data.buffer.slice(data.byteOffset, data.byteOffset + data.byteLength)
BufferSlice(data) ==
    SubSeq(data.buffer, data.byteOffset + 1, data.byteOffset + data.byteLength)

\* faulty variant: the Range header is set unconditionally
RequestHeaders_Always(rangeHeader) == {<<"Range", rangeHeader>>}

\* headers of the outbound request: Range only when rangeHeader is non-empty
RequestHeaders(rangeHeader) ==
    IF rangeHeader # <<>> THEN {<<"Range", rangeHeader>>} ELSE {}

(***************************************************************************)
(* Frames on the wire.                                                     *)
(***************************************************************************)
HeadersFrame(status, headers) ==
    [type |-> "headers", status |-> status, headers |-> headers,
     message |-> Null, data |-> <<>>]

ErrorFrame(status, msgLen) ==
    [type |-> "error", status |-> status, headers |-> Null,
     message |-> Slice(msgLen), data |-> <<>>]

DoneFrame ==
    [type |-> "done", status |-> Null, headers |-> Null,
     message |-> Null, data |-> <<>>]

BinaryFrame(bytes) ==
    [type |-> "binary", status |-> Null, headers |-> Null,
     message |-> Null, data |-> bytes]

(***************************************************************************)
(* State.                                                                  *)
(***************************************************************************)
VARIABLES
    sessions,   \* this.sessions: registered key -> FileSession object id
    heap,       \* FileSession objects by id (an object outlives its removal)
    sockets,    \* server-side WebSockets by id, with the frames sent to each
    tasks,      \* fetchAndBroadcast invocations, each with its origin request
    replied,    \* status of the Response the latest fetch() call returned
    call,       \* one coalescedFetch invocation on the worker side
    route       \* routes/download.ts: activeRequests, its promises and timers

vars == <<sessions, heap, sockets, tasks, replied, call, route>>

\* this.sessions.get(key)
Get(map, key) == IF key \in DOMAIN map THEN map[key] ELSE Null

\* faulty variant: the new session already counts its creator
NewSession_CountsCreator(b2Url) ==
    [url |-> b2Url, clients |-> {}, fetchInProgress |-> FALSE,
     responseHeaders |-> Null, responseStatus |-> Null, error |-> Null,
     totalClients |-> 1]

\* the object literal of fetch(), lines 76-86
NewSession(b2Url) ==
    [url |-> b2Url, clients |-> {}, fetchInProgress |-> FALSE,
     responseHeaders |-> Null, responseStatus |-> Null, error |-> Null,
     totalClients |-> 0]

\* a freshly accepted server socket with its ad hoc fields (lines 64-69)
NewSocket(sessionKey, b2Url, rangeHeader) ==
    [sessionKey |-> sessionKey, b2Url |-> b2Url, rangeHeader |-> rangeHeader,
     transport |-> "open",
     sent |-> <<>>, closeCode |-> Null,
     \* history: the object joined, and what it had done at that time
     sid |-> Null, headersAtJoin |-> FALSE, readsAtJoin |-> 0,
     \* history: the status of the Response its fetch() call returned
     \* (Null while it has not returned), and the close() calls made on it
     response |-> Null, closes |-> 0]

\* client.send(...) throws exactly when the transport is no longer open:
\* "broken" once the peer is gone, "closed" once the broker has closed it
CanSend(socket) == socket.transport = "open"

\* JavaScript truthiness of the nullable fields
TruthyNum(x) == x # Null /\ x # 0
TruthyObj(x) == x # Null
TruthyStr(len) == len # Null /\ len # 0

(***************************************************************************)
(* The broker's private methods, as functions on the store                 *)
(* st = [sessions, heap, sockets].                                         *)
(***************************************************************************)
Store == [sessions |-> sessions, heap |-> heap, sockets |-> sockets]

\* faulty variant: send() is not guarded, the first throw ends the loop
Deliver_StopsAtFailure(st, sessionKey, frame) ==
    LET sid == Get(st.sessions, sessionKey) IN
    IF sid = Null THEN st
    ELSE LET clients == st.heap[sid].clients
             reached == {c \in clients :
                           \A b \in clients : b <= c => CanSend(st.sockets[b])}
         IN [st EXCEPT
               !.sockets = [w \in DOMAIN st.sockets |->
                  IF w \in reached
                  THEN [st.sockets[w] EXCEPT !.sent = Append(@, frame)]
                  ELSE st.sockets[w]]]

\* faulty variant: clients whose send() threw stay in the client set
Deliver_NoPrune(st, sessionKey, frame) ==
    LET sid == Get(st.sessions, sessionKey) IN
    IF sid = Null THEN st
    ELSE LET clients == st.heap[sid].clients
             toRemove == {c \in clients : ~CanSend(st.sockets[c])}
         IN [st EXCEPT
               !.sockets = [w \in DOMAIN st.sockets |->
                  IF w \in clients \ toRemove
                  THEN [st.sockets[w] EXCEPT !.sent = Append(@, frame)]
                  ELSE st.sockets[w]]]

\* faulty variant: one failed send empties the whole client set
Deliver_ClearsOnFailure(st, sessionKey, frame) ==
    LET sid == Get(st.sessions, sessionKey) IN
    IF sid = Null THEN st
    ELSE LET clients == st.heap[sid].clients
             toRemove == {c \in clients : ~CanSend(st.sockets[c])}
         IN [st EXCEPT
               !.sockets = [w \in DOMAIN st.sockets |->
                  IF w \in clients \ toRemove
                  THEN [st.sockets[w] EXCEPT !.sent = Append(@, frame)]
                  ELSE st.sockets[w]],
               !.heap[sid].clients = IF toRemove = {} THEN clients ELSE {}]

\* the send loop and the pruning loop shared by both broadcasts
Deliver(st, sessionKey, frame) ==
    LET sid == Get(st.sessions, sessionKey) IN
    IF sid = Null THEN st
    ELSE LET clients == st.heap[sid].clients
             toRemove == {c \in clients : ~CanSend(st.sockets[c])}
         IN [st EXCEPT
               !.sockets = [w \in DOMAIN st.sockets |->
                  IF w \in clients \ toRemove
                  THEN [st.sockets[w] EXCEPT !.sent = Append(@, frame)]
                  ELSE st.sockets[w]],
               !.heap[sid].clients = clients \ toRemove]

BroadcastText(st, sessionKey, frame) == Deliver(st, sessionKey, frame)

BroadcastBinary(st, sessionKey, data) ==
    Deliver(st, sessionKey, BinaryFrame(BufferSlice(data)))

\* faulty variant: the clients are closed but the key stays in the registry
CloseSession_KeepsEntry(st, sessionKey) ==
    LET sid == Get(st.sessions, sessionKey) IN
    IF sid = Null THEN st
    ELSE LET clients == st.heap[sid].clients
         IN [st EXCEPT
               !.sockets = [w \in DOMAIN st.sockets |->
                  IF w \in clients
                  THEN [st.sockets[w] EXCEPT !.closeCode = CloseNormal,
                                             !.transport = "closed",
                                             !.closes = @ + 1]
                  ELSE st.sockets[w]]]

\* faulty variant: the sockets to close are found by their sessionKey tag,
\* whether or not a session is registered under the key
CloseSession_ByTag(st, sessionKey) ==
    [st EXCEPT
       !.sockets = [w \in DOMAIN st.sockets |->
          IF st.sockets[w].sessionKey = sessionKey
          THEN [st.sockets[w] EXCEPT !.closeCode = CloseNormal,
                                     !.transport = "closed",
                                     !.closes = @ + 1]
          ELSE st.sockets[w]],
       !.sessions = [k \in DOMAIN st.sessions \ {sessionKey} |->
                       st.sessions[k]]]

\* faulty variant: teardown empties the whole registry
CloseSession_ClearsRegistry(st, sessionKey) ==
    LET sid == Get(st.sessions, sessionKey) IN
    IF sid = Null THEN st
    ELSE LET clients == st.heap[sid].clients
         IN [st EXCEPT
               !.sockets = [w \in DOMAIN st.sockets |->
                  IF w \in clients
                  THEN [st.sockets[w] EXCEPT !.closeCode = CloseNormal,
                                             !.transport = "closed",
                                             !.closes = @ + 1]
                  ELSE st.sockets[w]],
               !.sessions = << >>]

\* faulty variant: teardown closes every socket that ever joined the object,
\* also those no longer in its client set
CloseSession_EveryJoiner(st, sessionKey) ==
    LET sid == Get(st.sessions, sessionKey) IN
    IF sid = Null THEN st
    ELSE [st EXCEPT
            !.sockets = [w \in DOMAIN st.sockets |->
               IF st.sockets[w].sid = sid
               THEN [st.sockets[w] EXCEPT !.closeCode = CloseNormal,
                                          !.transport = "closed",
                                          !.closes = @ + 1]
               ELSE st.sockets[w]],
            !.sessions = [k \in DOMAIN st.sessions \ {sessionKey} |->
                            st.sessions[k]]]

CloseSession(st, sessionKey) ==
    LET sid == Get(st.sessions, sessionKey) IN
    IF sid = Null THEN st
    ELSE LET clients == st.heap[sid].clients
         IN [st EXCEPT
               !.sockets = [w \in DOMAIN st.sockets |->
                  IF w \in clients
                  THEN [st.sockets[w] EXCEPT !.closeCode = CloseNormal,
                                             !.transport = "closed",
                                             !.closes = @ + 1]
                  ELSE st.sockets[w]],
               !.sessions = [k \in DOMAIN st.sessions \ {sessionKey} |->
                               st.sessions[k]]]

\* coalesced-fetch.ts before coalescedFetch is called: no socket, the
\* locals of lines 66-69 at their initial values, a fresh TransformStream
NoCall ==
    [pc |-> "idle", ws |-> "none", headersReceived |-> FALSE,
     responseStatus |-> 200, responseHeaders |-> Null,
     headersPromise |-> "pending", stream |-> "writable", written |-> 0,
     closeCode |-> Null, response |-> Null, events |-> << >>]

\* routes/download.ts at module load: activeRequests is empty, no request
\* promise exists, no call is in progress, no cleanup timer is armed
NoRoute ==
    [activeRequests |-> << >>, promises |-> << >>, calls |-> << >>,
     timers |-> << >>]

(***************************************************************************)
(* Initial state: the constructor leaves an empty registry.                *)
(***************************************************************************)
Init ==
    /\ sessions = << >>
    /\ heap = << >>
    /\ sockets = << >>
    /\ tasks = << >>
    /\ replied = Null
    /\ call = NoCall
    /\ route = NoRoute

NextWs == Len(sockets) + 1
NextSid == Len(heap) + 1

Apply(st) ==
    /\ sessions' = st.sessions
    /\ heap' = st.heap
    /\ sockets' = st.sockets

\* the store a handler other than fetch() leaves behind
Commit(st) == Apply(st) /\ UNCHANGED <<replied, call, route>>

\* history: the body reads made so far on behalf of FileSession object sid
ReadsOf(sid) ==
    LET ts == {t \in DOMAIN tasks : tasks[t].sid = sid}
    IN IF ts = {} THEN 0
       ELSE Len(tasks[CHOOSE t \in ts : \A u \in ts : t <= u].reads)

(***************************************************************************)
(* fetch(request) for a WebSocket upgrade carrying a url parameter.        *)
(***************************************************************************)
\* faulty variants of the line-111 guard
ShouldStartFetch_IgnoresInProgress(session) == ~TruthyStr(session.error)

ShouldStartFetch_Always(session) == TRUE

\* line 111: start the leader fetch?
ShouldStartFetch(session) ==
    ~session.fetchInProgress /\ ~TruthyStr(session.error)

\* faulty variant: no catch-up for late joiners
HeadersKnown_Never(session) == FALSE

\* faulty variant: catch-up only for a successful response
HeadersKnown_OnlySuccess(session) ==
    /\ TruthyObj(session.responseHeaders)
    /\ TruthyNum(session.responseStatus)
    /\ Ok(session.responseStatus)

\* faulty variant: catch-up only for status 200
HeadersKnown_Only200(session) ==
    TruthyObj(session.responseHeaders) /\ session.responseStatus = 200

\* line 102: headers already known?
HeadersKnown(session) ==
    TruthyObj(session.responseHeaders) /\ TruthyNum(session.responseStatus)

\* faulty variant: the catch-up frame carries a fixed status
CatchUpFrame_Status200(session) ==
    HeadersFrame(200, session.responseHeaders)

\* lines 103-107: the catch-up frame of a late joiner
CatchUpFrame(session) ==
    HeadersFrame(session.responseStatus, session.responseHeaders)

\* the run of fetchAndBroadcast up to its first await (lines 133-144)
StartTask(st, sid, sessionKey, b2Url, rangeHeader) ==
    IF Get(st.sessions, sessionKey) = Null THEN << >>
    ELSE << [pc |-> "fetch", sid |-> Get(st.sessions, sessionKey),
             sessionKey |-> sessionKey, b2Url |-> b2Url,
             rangeHeader |-> rangeHeader,
             requestUrl |-> b2Url,
             requestHeaders |-> RequestHeaders(rangeHeader),
             by |-> NextWs,
             status |-> Null, headers |-> Null, body |-> FALSE,
             reads |-> << >>,
             \* history: an awaited promise rejected
             threw |-> FALSE] >>

\* faulty variant: fetch() awaits session.fetchPromise before it returns
JoinReturns_AfterFetch(st, sid) ==
    IF \E t \in DOMAIN tasks : tasks[t].sid = sid /\ tasks[t].pc \in {"completed", "failed"}
    THEN SwitchingProtocols ELSE Null

\* lines 113-119: fetchAndBroadcast is not awaited, fetch() returns at once
JoinReturns(st, sid) == SwitchingProtocols

Join(b2Url, rangeParam) ==
    LET rangeHeader == RangeOf(rangeParam)
        sessionKey == BuildKey(b2Url, rangeHeader)
        ws == NextWs
        found == Get(sessions, sessionKey)
        isNewSession == found = Null
        sid == IF isNewSession THEN NextSid ELSE found
        \* lines 72-88
        st1 == IF isNewSession
               THEN [Store EXCEPT
                       !.heap = Append(heap, NewSession(b2Url)),
                       !.sessions = [k \in DOMAIN sessions \cup {sessionKey} |->
                                       IF k = sessionKey THEN sid ELSE sessions[k]]]
               ELSE Store
        \* lines 64-69, 91-92
        known == HeadersKnown(st1.heap[sid])
        st2 == [st1 EXCEPT
                  !.sockets = Append(sockets,
                     [NewSocket(sessionKey, b2Url, rangeHeader) EXCEPT
                        !.sid = sid, !.headersAtJoin = known,
                        !.readsAtJoin = ReadsOf(sid)]),
                  !.heap[sid].clients = @ \cup {ws},
                  !.heap[sid].totalClients = @ + 1]
        \* lines 102-108
        st3 == IF known
               THEN [st2 EXCEPT !.sockets[ws].sent =
                       Append(@, CatchUpFrame(st2.heap[sid]))]
               ELSE st2
        \* lines 111-114
        start == ShouldStartFetch(st3.heap[sid])
        st4 == IF start THEN [st3 EXCEPT !.heap[sid].fetchInProgress = TRUE]
               ELSE st3
        \* lines 116-119
        st5 == [st4 EXCEPT !.sockets[ws].response = JoinReturns(st4, sid)]
    IN /\ ws <= MaxSubs
       /\ isNewSession => NextSid <= MaxSessions
       /\ Apply(st5)
       /\ replied' = st5.sockets[ws].response
       /\ UNCHANGED <<call, route>>
       /\ tasks' = IF start
                   THEN tasks \o StartTask(st4, sid, sessionKey, b2Url, rangeHeader)
                   ELSE tasks

(***************************************************************************)
(* fetchAndBroadcast, one action per resumption after an await.            *)
(***************************************************************************)
SetTask(t, pc) == tasks' = [tasks EXCEPT ![t].pc = pc]

\* the task has left its try block through the catch block
SetThrew(t) == tasks' = [tasks EXCEPT ![t].pc = "failed", ![t].threw = TRUE]

\* faulty variant: the catch block is not followed by a finally block
Catch_NoTeardown(st, t, msgLen) ==
    LET task == tasks[t]
        st1 == [st EXCEPT !.heap[task.sid].error = msgLen]
    IN BroadcastText(st1, task.sessionKey, ErrorFrame(GenericStatus, msgLen))

\* faulty variant: the catch block also records the generic status
Catch_OverwritesStatus(st, t, msgLen) ==
    LET task == tasks[t]
        st1 == [st EXCEPT !.heap[task.sid].error = msgLen,
                          !.heap[task.sid].responseStatus = GenericStatus]
        st2 == BroadcastText(st1, task.sessionKey,
                             ErrorFrame(GenericStatus, msgLen))
    IN CloseSession(st2, task.sessionKey)

\* the catch block followed by the finally block (lines 194-204)
Catch(st, t, msgLen) ==
    LET task == tasks[t]
        st1 == [st EXCEPT !.heap[task.sid].error = msgLen]
        st2 == BroadcastText(st1, task.sessionKey,
                             ErrorFrame(GenericStatus, msgLen))
    IN CloseSession(st2, task.sessionKey)

\* lines 146-176: the code run when await fetch(...) yields a response
OnResponse(t, response) ==
    LET task == tasks[t]
        st1 == [Store EXCEPT
                  !.heap[task.sid].responseStatus = response.status,
                  !.heap[task.sid].responseHeaders = response.headers]
        st2 == BroadcastText(st1, task.sessionKey,
                  HeadersFrame(response.status,
                               st1.heap[task.sid].responseHeaders))
        \* lines 172-175, then the finally block
        st3 == CloseSession(
                 CloseSession(BroadcastText(st2, task.sessionKey, DoneFrame),
                              task.sessionKey),
                 task.sessionKey)
    IN /\ task.pc = "fetch"
       /\ IF ~Ok(response.status) /\ response.status # 206
          THEN /\ Commit(st2)
               /\ tasks' = [tasks EXCEPT ![t].pc = "text",
                                         ![t].status = response.status,
                                         ![t].headers = response.headers]
          ELSE IF ~response.body
          THEN /\ Commit(st3)
               /\ tasks' = [tasks EXCEPT ![t].pc = "completed",
                                         ![t].status = response.status,
                                         ![t].headers = response.headers]
          ELSE /\ Commit(st2)
               /\ tasks' = [tasks EXCEPT ![t].pc = "read",
                                         ![t].status = response.status,
                                         ![t].headers = response.headers,
                                         ![t].body = TRUE]

\* faulty variant: the handler yields between storing the response info and
\* broadcasting the headers
FetchResolves_YieldsAfterStore(t, response) ==
    LET task == tasks[t]
    IN IF heap[task.sid].responseHeaders = Null
       THEN /\ task.pc = "fetch"
            /\ heap' = [heap EXCEPT
                          ![task.sid].responseStatus = response.status,
                          ![task.sid].responseHeaders = response.headers]
            /\ UNCHANGED <<sessions, sockets, tasks, replied, call, route>>
       ELSE /\ response.status = heap[task.sid].responseStatus
            /\ response.headers = heap[task.sid].responseHeaders
            /\ OnResponse(t, response)

\* await fetch(b2Url, { headers }) resolves
FetchResolves(t, response) == OnResponse(t, response)

\* faulty variant: the catch block announces headers before the error
FetchRejects_HeadersFirst(t, msgLen) ==
    /\ tasks[t].pc = "fetch"
    /\ Commit(Catch(BroadcastText(Store, tasks[t].sessionKey,
                                  HeadersFrame(GenericStatus, Null)),
                    t, msgLen))
    /\ SetThrew(t)

\* faulty variant: a rejected fetch is tried again for the same session
FetchRejects_Retries(t, msgLen) ==
    /\ tasks[t].pc = "fetch"
    /\ tasks' = [tasks EXCEPT ![t].pc = "failed", ![t].threw = TRUE]
                \o StartTask(Store, tasks[t].sid, tasks[t].sessionKey,
                             tasks[t].b2Url, tasks[t].rangeHeader)
    /\ UNCHANGED <<sessions, heap, sockets, replied, call, route>>

\* await fetch(...) rejects
FetchRejects(t, msgLen) ==
    /\ tasks[t].pc = "fetch"
    /\ Commit(Catch(Store, t, msgLen))
    /\ SetThrew(t)

\* faulty variant: the error frame carries the generic status
TextResolves_GenericStatus(t, bodyLen) ==
    LET task == tasks[t]
        st1 == [Store EXCEPT !.heap[task.sid].error = bodyLen]
        st2 == BroadcastText(st1, task.sessionKey,
                             ErrorFrame(GenericStatus, bodyLen))
        st3 == CloseSession(CloseSession(st2, task.sessionKey),
                            task.sessionKey)
    IN /\ task.pc = "text"
       /\ Commit(st3)
       /\ SetTask(t, "failed")

\* faulty variant: the handler yields between the teardown of line 165 and
\* the finally block, which then runs in a later turn of the event loop
TextResolves_LateFinally(t, bodyLen) ==
    LET task == tasks[t]
        st1 == [Store EXCEPT !.heap[task.sid].error = bodyLen]
        st2 == BroadcastText(st1, task.sessionKey,
                             ErrorFrame(task.status, bodyLen))
    IN /\ task.pc = "text"
       /\ IF heap[task.sid].error = Null
          THEN /\ Commit(CloseSession(st2, task.sessionKey))
               /\ UNCHANGED tasks
          ELSE /\ Commit(CloseSession(Store, task.sessionKey))
               /\ SetTask(t, "failed")

\* await response.text() resolves: lines 160-167, then the finally block
TextResolves(t, bodyLen) ==
    LET task == tasks[t]
        st1 == [Store EXCEPT !.heap[task.sid].error = bodyLen]
        st2 == BroadcastText(st1, task.sessionKey,
                             ErrorFrame(task.status, bodyLen))
        st3 == CloseSession(CloseSession(st2, task.sessionKey),
                            task.sessionKey)
    IN /\ task.pc = "text"
       /\ Commit(st3)
       /\ SetTask(t, "failed")

\* faulty variant: the rejection escapes the try block
TextRejects_Unhandled(t, msgLen) ==
    /\ tasks[t].pc = "text"
    /\ SetThrew(t)
    /\ UNCHANGED <<sessions, heap, sockets, replied, call, route>>

\* await response.text() rejects
TextRejects(t, msgLen) ==
    /\ tasks[t].pc = "text"
    /\ Commit(Catch(Store, t, msgLen))
    /\ SetThrew(t)

\* await reader.read() yields { done: false, value }: lines 188-191
ReadValue(t, empty) ==
    LET task == tasks[t]
        value == ChunkValue(Len(task.reads) + 1, empty)
    IN /\ task.pc = "read"
       /\ Len(task.reads) < MaxChunks
       /\ Commit(IF value.byteLength > 0
                 THEN BroadcastBinary(Store, task.sessionKey, value)
                 ELSE Store)
       /\ tasks' = [tasks EXCEPT ![t].reads = Append(@, value)]

\* faulty variant: teardown runs before the done frame is broadcast
ReadDone_CloseFirst(t) ==
    LET task == tasks[t]
    IN /\ task.pc = "read"
       /\ Commit(BroadcastText(CloseSession(Store, task.sessionKey),
                               task.sessionKey, DoneFrame))
       /\ SetTask(t, "completed")

\* faulty variant: an exception escapes after the done frame was broadcast
ReadDone_ThenThrows(t) ==
    LET task == tasks[t]
    IN /\ task.pc = "read"
       /\ Commit(Catch(BroadcastText(Store, task.sessionKey, DoneFrame),
                       t, MaxMessageLen))
       /\ SetThrew(t)

\* faulty variant: the loop ends without the finally block
ReadDone_NoTeardown(t) ==
    LET task == tasks[t]
    IN /\ task.pc = "read"
       /\ Commit(BroadcastText(Store, task.sessionKey, DoneFrame))
       /\ SetTask(t, "completed")

\* await reader.read() yields { done: true }: lines 182-186, then finally
ReadDone(t) ==
    LET task == tasks[t]
    IN /\ task.pc = "read"
       /\ Commit(CloseSession(
                   BroadcastText(Store, task.sessionKey, DoneFrame),
                   task.sessionKey))
       /\ SetTask(t, "completed")

\* faulty variant: the catch block reports the stored origin status
ReadRejects_OriginStatus(t, msgLen) ==
    LET task == tasks[t]
        st1 == [Store EXCEPT !.heap[task.sid].error = msgLen]
        st2 == BroadcastText(st1, task.sessionKey,
                             ErrorFrame(task.status, msgLen))
    IN /\ task.pc = "read"
       /\ Commit(CloseSession(st2, task.sessionKey))
       /\ SetThrew(t)

\* await reader.read() rejects
ReadRejects(t, msgLen) ==
    /\ tasks[t].pc = "read"
    /\ Commit(Catch(Store, t, msgLen))
    /\ SetThrew(t)

(***************************************************************************)
(* The subscriber transports and their notifications.                      *)
(***************************************************************************)
\* faulty variant: the session is dropped when its last client leaves
Detach_DeletesWhenEmpty(st, ws) ==
    LET sid == Get(st.sessions, st.sockets[ws].sessionKey)
    IN IF sid = Null THEN st
       ELSE IF st.heap[sid].clients \ {ws} = {}
       THEN [st EXCEPT !.heap[sid].clients = {},
                       !.sessions = [k \in DOMAIN st.sessions
                                           \ {st.sockets[ws].sessionKey} |->
                                       st.sessions[k]]]
       ELSE [st EXCEPT !.heap[sid].clients = @ \ {ws}]

\* faulty variant: a leaving client is also taken off the join counter
Detach_Decrements(st, ws) ==
    LET sid == Get(st.sessions, st.sockets[ws].sessionKey)
    IN IF sid = Null THEN st
       ELSE [st EXCEPT !.heap[sid].clients = @ \ {ws},
                       !.heap[sid].totalClients = @ - 1]

\* the body shared by webSocketClose and webSocketError
Detach(st, ws) ==
    LET sid == Get(st.sessions, st.sockets[ws].sessionKey)
    IN IF sid = Null THEN st
       ELSE [st EXCEPT !.heap[sid].clients = @ \ {ws}]

\* the peer goes away: from now on send() on this socket throws
TransportFails(ws) ==
    /\ sockets[ws].transport = "open"
    /\ sockets' = [sockets EXCEPT ![ws].transport = "broken"]
    /\ UNCHANGED <<sessions, heap, tasks, replied, call, route>>

\* the runtime reports that the socket closed (after the peer closed it, after
\* the transport failed, or after the broker's own close)
webSocketClose(ws) ==
    /\ Commit(Detach([Store EXCEPT !.sockets[ws].transport =
                        IF @ = "open" THEN "broken" ELSE @], ws))
    /\ UNCHANGED tasks

\* the runtime reports an error on the socket
webSocketError(ws) ==
    /\ sockets[ws].transport # "closed"
    /\ Commit(Detach([Store EXCEPT !.sockets[ws].transport = "broken"], ws))
    /\ UNCHANGED tasks

Next ==
    \/ \E in \in JoinInputs : Join(in[1], in[2])
    \/ \E t \in DOMAIN tasks : \E response \in OriginResponses :
          FetchResolves(t, response)
    \/ \E t \in DOMAIN tasks : \E len \in MessageLens : FetchRejects(t, len)
    \/ \E t \in DOMAIN tasks : \E len \in MessageLens : TextResolves(t, len)
    \/ \E t \in DOMAIN tasks : \E len \in MessageLens : TextRejects(t, len)
    \/ \E t \in DOMAIN tasks : \E empty \in BOOLEAN : ReadValue(t, empty)
    \/ \E t \in DOMAIN tasks : ReadDone(t)
    \/ \E t \in DOMAIN tasks : \E len \in MessageLens : ReadRejects(t, len)
    \/ \E ws \in DOMAIN sockets : TransportFails(ws)
    \/ \E ws \in DOMAIN sockets : webSocketClose(ws)
    \/ \E ws \in DOMAIN sockets : webSocketError(ws)

Spec == Init /\ [][Next]_vars

(***************************************************************************)
(* The broker under a responsive origin: every promise a running           *)
(* fetchAndBroadcast invocation awaits is eventually settled, and the      *)
(* event loop eventually runs the continuation.  A body has at most        *)
(* MaxChunks reads before it ends or fails.  All joins carry one url and   *)
(* no range, and every exception carries one message.                      *)
(***************************************************************************)
FairJoinInputs == { << <<"a">>, Absent >> }
FairMessageLens == {501}

OriginEvent(t) ==
    /\ t \in DOMAIN tasks
    /\ \/ \E response \in OriginResponses : FetchResolves(t, response)
       \/ \E len \in FairMessageLens : FetchRejects(t, len)
       \/ \E len \in FairMessageLens : TextResolves(t, len)
       \/ \E len \in FairMessageLens : TextRejects(t, len)
       \/ ReadValue(t, FALSE)
       \/ ReadDone(t)
       \/ \E len \in FairMessageLens : ReadRejects(t, len)

FairNext ==
    \/ \E in \in FairJoinInputs : Join(in[1], in[2])
    \/ \E t \in DOMAIN tasks : OriginEvent(t)
    \/ \E ws \in DOMAIN sockets : TransportFails(ws)
    \/ \E ws \in DOMAIN sockets : webSocketClose(ws)
    \/ \E ws \in DOMAIN sockets : webSocketError(ws)

FairSpec ==
    /\ Init
    /\ [][FairNext]_vars
    /\ \A t \in 1..MaxSessions : WF_vars(OriginEvent(t))

(***************************************************************************)
(* fetch(request) as a whole: the two checks that precede the join.  The   *)
(* Upgrade header is compared with 'websocket' as it stands, and an empty  *)
(* url parameter counts as missing.  Joins carry one url.                  *)
(***************************************************************************)
Upgrades == {"websocket", "WebSocket", "absent"}
UrlParams == {Absent, << >>, <<"a">>}
RangeParams == {Absent, <<"b">>}

\* return new Response(..., { status })
Reply(status) ==
    /\ replied' = status
    /\ UNCHANGED <<sessions, heap, sockets, tasks, call, route>>

\* faulty variant: the url parameter is not checked
Fetch_NoUrlCheck(upgradeHeader, urlParam, rangeParam) ==
    IF upgradeHeader # "websocket" THEN Reply(UpgradeRequired)
    ELSE Join(IF urlParam = Absent THEN << >> ELSE urlParam, rangeParam)

\* lines 35-120
Fetch(upgradeHeader, urlParam, rangeParam) ==
    IF upgradeHeader # "websocket" THEN Reply(UpgradeRequired)
    ELSE IF urlParam = Absent \/ urlParam = << >> THEN Reply(BadRequest)
    ELSE Join(urlParam, rangeParam)

RequestNext ==
    \/ \E upgradeHeader \in Upgrades : \E urlParam \in UrlParams :
          \E rangeParam \in RangeParams :
             Fetch(upgradeHeader, urlParam, rangeParam)
    \/ \E t \in DOMAIN tasks : OriginEvent(t)
    \/ \E ws \in DOMAIN sockets : TransportFails(ws)
    \/ \E ws \in DOMAIN sockets : webSocketClose(ws)
    \/ \E ws \in DOMAIN sockets : webSocketError(ws)

RequestSpec == Init /\ [][RequestNext]_vars

(***************************************************************************)
(* The key builder on its own: two joins whose url and range parameters    *)
(* range over all short strings on an alphabet that contains the separator.*)
(***************************************************************************)
Alphabet == {"a", "|"}
Strings == UNION {[1..n -> Alphabet] : n \in 0..MaxStrLen}

KeyJoin ==
    \E b2Url \in Strings \ {<<>>} : \E rangeParam \in Strings \cup {Absent} :
       /\ NextWs <= 2
       /\ Join(b2Url, rangeParam)

KeySpec == Init /\ [][KeyJoin]_vars

(***************************************************************************)
(* utils/coalesced-fetch.ts: one coalescedFetch invocation.  Each socket   *)
(* event runs its listener; the writer call of a listener is made before   *)
(* the listener's first await, so the stream operations happen in event    *)
(* order.                                                                  *)
(***************************************************************************)
MaxEvents == 4

\* the frames the socket may deliver
ClientFrames ==
    {HeadersFrame(206, 1), HeadersFrame(Null, Null),
     ErrorFrame(404, 0), ErrorFrame(Null, 501),
     DoneFrame, BinaryFrame(<<1>>)}

\* message.status || fallback
StatusOr(status, fallback) == IF TruthyNum(status) THEN status ELSE fallback

\* headerResolve(): settles the promise awaited at line 143 if it is still
\* pending; the awaiting call then returns the Response built from the
\* locals as they are now
HeaderResolve(c) ==
    IF c.headersPromise # "pending" THEN c
    ELSE [c EXCEPT !.headersPromise = "resolved",
                   !.pc = "returned",
                   !.response = [status |-> c.responseStatus,
                                 headers |-> c.responseHeaders]]

\* headerReject(...): the awaiting call throws
HeaderReject(c) ==
    IF c.headersPromise # "pending" THEN c
    ELSE [c EXCEPT !.headersPromise = "rejected", !.pc = "thrown"]

\* writer.write(chunk): queued while the stream is writable, rejected after
WriterWrite(c) ==
    IF c.stream = "writable" THEN [c EXCEPT !.written = @ + 1] ELSE c

\* writer.close(): the stream ends normally after the queued chunks; the
\* call is rejected when the stream is already closed or errored
WriterClose(c) ==
    IF c.stream = "writable" THEN [c EXCEPT !.stream = "closed"] ELSE c

WriterCloseSucceeds(c) == c.stream = "writable"

\* writer.abort(reason): errors the stream; after a close() the stream is
\* errored only if the close has not yet gone through (the consumer has not
\* drained the queued chunks)
WriterAbort(c, drained) ==
    IF c.stream = "writable" \/ (c.stream = "closed" /\ ~drained)
    THEN [c EXCEPT !.stream = "errored"]
    ELSE c

\* lines 54-76 and 143: the upgrade request returns a socket or not
CoalescedFetch(upgraded) ==
    /\ call.pc = "idle"
    /\ call' = IF upgraded
               THEN [call EXCEPT !.pc = "awaiting", !.ws = "open"]
               ELSE [call EXCEPT !.pc = "thrown"]
    /\ UNCHANGED <<sessions, heap, sockets, tasks, replied, route>>

\* lines 79-121: the 'message' listener
OnMessage(frame, drained) ==
    /\ call.ws = "open"
    /\ Len(call.events) < MaxEvents
    /\ LET c0 == [call EXCEPT !.events = Append(@, frame.type)]
       IN call' =
          CASE frame.type = "binary" -> WriterWrite(c0)
            [] frame.type = "headers" ->
                 HeaderResolve(
                    [c0 EXCEPT !.responseStatus = StatusOr(frame.status, 200),
                               !.responseHeaders =
                                  IF TruthyObj(frame.headers)
                                  THEN frame.headers ELSE @,
                               !.headersReceived = TRUE])
            [] frame.type = "done" ->
                 [WriterClose(c0) EXCEPT !.closeCode =
                     IF WriterCloseSucceeds(c0) THEN 1000 ELSE @]
            [] frame.type = "error" ->
                 LET c1 == IF ~c0.headersReceived
                           THEN HeaderResolve(
                                   [c0 EXCEPT !.responseStatus =
                                       StatusOr(frame.status, 500)])
                           ELSE c0
                 IN [WriterAbort(c1, drained) EXCEPT !.closeCode = 1011]
    /\ UNCHANGED <<sessions, heap, sockets, tasks, replied, route>>

\* lines 123-132: the 'error' listener
OnError(drained) ==
    /\ call.ws = "open"
    /\ Len(call.events) < MaxEvents
    /\ LET c0 == [call EXCEPT !.events = Append(@, "socket-error")]
           c1 == IF ~c0.headersReceived THEN HeaderReject(c0) ELSE c0
       IN call' = WriterAbort(c1, drained)
    /\ UNCHANGED <<sessions, heap, sockets, tasks, replied, route>>

\* lines 134-140: the 'close' listener; the socket delivers nothing after it
OnClose ==
    /\ call.ws = "open"
    /\ call' = WriterClose([call EXCEPT !.ws = "closed",
                                        !.events = Append(@, "socket-close")])
    /\ UNCHANGED <<sessions, heap, sockets, tasks, replied, route>>

ClientNext ==
    \/ \E upgraded \in BOOLEAN : CoalescedFetch(upgraded)
    \/ \E frame \in ClientFrames : \E drained \in BOOLEAN :
          OnMessage(frame, drained)
    \/ \E drained \in BOOLEAN : OnError(drained)
    \/ OnClose

ClientSpec == Init /\ [][ClientNext]_vars

(***************************************************************************)
(* routes/download.ts: the in-memory deduplication of handleB2LargeFile.   *)
(* A call runs to its first await in one step; when a request promise      *)
(* settles, the continuations of the calls awaiting it run in the order in *)
(* which they began to await, before any other event.                      *)
(***************************************************************************)
MaxCalls == 3
MaxRequests == 4

\* `${url.pathname}_${requestHeaders.get('range') || 'full'}`
RequestKeys == {"/a_full", "/a_bytes=0-"}

\* the calls that are awaiting request promise p, in the order they began
Awaiting(r, p) ==
    {c \in DOMAIN r.calls :
        r.calls[c].pc \in {"own", "shared"} /\ r.calls[c].promise = p}

\* activeRequests.delete(requestKey)
DeleteKey(r, requestKey) ==
    [r EXCEPT !.activeRequests =
        [k \in DOMAIN r.activeRequests \ {requestKey} |-> r.activeRequests[k]]]

\* lines 71-82: makeB2Request(...) issues the origin request, the promise is
\* stored under the key, the cleanup timer is armed, the call awaits
MakeRequest(r, c, requestKey) ==
    LET p == Len(r.promises) + 1
    IN [r EXCEPT
          !.promises = Append(@, [key |-> requestKey, state |-> "pending"]),
          !.activeRequests =
             [k \in DOMAIN r.activeRequests \cup {requestKey} |->
                 IF k = requestKey THEN p ELSE r.activeRequests[k]],
          !.timers = Append(@, requestKey),
          !.calls[c] = [key |-> requestKey, pc |-> "own", promise |-> p]]

\* lines 63-67 and 84-87: the continuation of call c after its awaited
\* promise rejected
AfterRejection(r, c) ==
    LET requestKey == r.calls[c].key
    IN IF r.calls[c].pc = "own"
       THEN [DeleteKey(r, requestKey) EXCEPT !.calls[c].pc = "threw"]
       ELSE MakeRequest(DeleteKey(r, requestKey), c, requestKey)

RECURSIVE RunContinuations(_, _)
RunContinuations(r, waiting) ==
    IF waiting = {} THEN r
    ELSE LET c == CHOOSE x \in waiting : \A y \in waiting : x <= y
         IN RunContinuations(AfterRejection(r, c), waiting \ {c})

\* lines 49-82: a call of handleB2LargeFile up to its first await
HandleB2LargeFile(requestKey) ==
    /\ Len(route.calls) < MaxCalls
    /\ LET c == Len(route.calls) + 1
           r0 == [route EXCEPT !.calls =
                     Append(@, [key |-> requestKey, pc |-> "start",
                                promise |-> Null])]
       IN IF requestKey \in DOMAIN route.activeRequests
          THEN LET p == route.activeRequests[requestKey]
               IN route' = [r0 EXCEPT !.calls[c].promise = p,
                               !.calls[c].pc =
                                  IF route.promises[p].state = "resolved"
                                  THEN "returned" ELSE "shared"]
          ELSE /\ Len(route.promises) < MaxRequests
               /\ route' = MakeRequest(r0, c, requestKey)
    /\ UNCHANGED <<sessions, heap, sockets, tasks, replied, call>>

\* the origin request of promise p yields a Response: lines 57-62 and 82-83
RequestResolves(p) ==
    /\ route.promises[p].state = "pending"
    /\ route' = [route EXCEPT
          !.promises[p].state = "resolved",
          !.calls = [c \in DOMAIN route.calls |->
                       IF c \in Awaiting(route, p)
                       THEN [route.calls[c] EXCEPT !.pc = "returned"]
                       ELSE route.calls[c]]]
    /\ UNCHANGED <<sessions, heap, sockets, tasks, replied, call>>

\* the origin request of promise p fails: lines 63-67, 70-82 and 84-87
RequestRejects(p) ==
    /\ route.promises[p].state = "pending"
    /\ Len(route.promises) + Cardinality(Awaiting(route, p)) - 1 <= MaxRequests
    /\ route' = RunContinuations(
                   [route EXCEPT !.promises[p].state = "rejected"],
                   Awaiting(route, p))
    /\ UNCHANGED <<sessions, heap, sockets, tasks, replied, call>>

\* lines 77-79: the oldest armed cleanup timer fires
TimerFires ==
    /\ route.timers # << >>
    /\ route' = [DeleteKey(route, Head(route.timers)) EXCEPT
                    !.timers = Tail(@)]
    /\ UNCHANGED <<sessions, heap, sockets, tasks, replied, call>>

RouteNext ==
    \/ \E requestKey \in RequestKeys : HandleB2LargeFile(requestKey)
    \/ \E p \in DOMAIN route.promises : RequestResolves(p)
    \/ \E p \in DOMAIN route.promises : RequestRejects(p)
    \/ TimerFires

RouteSpec == Init /\ [][RouteNext]_vars

(***************************************************************************)
(* Vocabulary of the properties.                                           *)
(***************************************************************************)
Sockets == DOMAIN sockets
Tasks == DOMAIN tasks
Objects == DOMAIN heap

Registered(sid) == \E k \in DOMAIN sessions : sessions[k] = sid
TasksOf(sid) == {t \in Tasks : tasks[t].sid = sid}
Running(t) == tasks[t].pc \in {"fetch", "text", "read"}
Attached(w) ==
    /\ Registered(sockets[w].sid)
    /\ w \in heap[sockets[w].sid].clients

Sent(w) == sockets[w].sent
Positions(w, type) == {i \in 1..Len(Sent(w)) : Sent(w)[i].type = type}
Terminal(w) == Positions(w, "done") \cup Positions(w, "error")

\* the subscribers whose join carried the same (url, range) as w, from w on
SameRequestSince(w) ==
    {v \in Sockets : /\ v >= w
                     /\ sockets[v].b2Url = sockets[w].b2Url
                     /\ sockets[v].rangeHeader = sockets[w].rangeHeader}

\* the subscriber whose join created FileSession object sid
Creator(sid) == CHOOSE w \in Sockets :
                  sockets[w].sid = sid /\ \A v \in Sockets :
                                            sockets[v].sid = sid => w <= v

(***************************************************************************)
(* C1: while the headers of a session's leader fetch are not yet known,    *)
(* every join carrying the same (url, range) as the join that created the  *)
(* session is attached to that session, and all these joins together have  *)
(* issued exactly one origin fetch.                                        *)
(***************************************************************************)
C1_OneFetchBeforeHeaders ==
    \A sid \in Objects :
       (Registered(sid) /\ heap[sid].responseHeaders = Null) =>
          LET same == SameRequestSince(Creator(sid))
          IN /\ \A w \in same : sockets[w].sid = sid
             /\ Cardinality({t \in Tasks : tasks[t].by \in same}) = 1

C1_Witness ==
    \E sid \in Objects :
       /\ Registered(sid) /\ heap[sid].responseHeaders = Null
       /\ Cardinality(SameRequestSince(Creator(sid))) >= 2
       /\ \E t \in TasksOf(sid) : tasks[t].pc = "fetch"

(***************************************************************************)
(* C2: at most one origin fetch is in flight per coalescing key, and every *)
(* FileSession object has had its leader fetch started exactly once.       *)
(***************************************************************************)
C2_SingleLeaderFetch ==
    /\ \A t, u \in Tasks :
          (Running(t) /\ Running(u) /\ tasks[t].sessionKey = tasks[u].sessionKey)
             => t = u
    /\ \A sid \in Objects :
          /\ Cardinality(TasksOf(sid)) = 1
          /\ heap[sid].fetchInProgress

C2_Witness ==
    \E sid \in Objects :
       /\ heap[sid].totalClients >= 2
       /\ heap[sid].clients = {}
       /\ ~Registered(sid)
       /\ \E w \in Sockets : sockets[w].sid = sid /\ Terminal(w) = {}

(***************************************************************************)
(* C3: the frames sent to a subscriber are, in order: at most one headers  *)
(* frame, then binary frames in the order the origin produced the chunks,  *)
(* then at most one terminal frame (done or error) after which nothing is  *)
(* sent.  A subscriber has its terminal frame unless its transport is gone *)
(* (it disconnected or was pruned) or its session's fetch is still running.*)
(***************************************************************************)
C3_FrameOrder ==
    \A w \in Sockets :
       LET n == Len(Sent(w)) IN
       /\ Positions(w, "headers") \subseteq {1}
       /\ Cardinality(Terminal(w)) <= 1
       /\ Terminal(w) \subseteq {n}
       /\ \A i, j \in Positions(w, "binary") :
             i < j => Sent(w)[i].data[1] < Sent(w)[j].data[1]
       /\ \/ Terminal(w) # {}
          \/ sockets[w].transport = "broken"
          \/ Attached(w) /\ \E t \in TasksOf(sockets[w].sid) : Running(t)

C3_Witness ==
    \E w \in Sockets :
       /\ Len(Sent(w)) = 4
       /\ Positions(w, "headers") = {1}
       /\ Positions(w, "binary") = {2, 3}
       /\ Terminal(w) = {4}
       /\ sockets[w].closeCode = CloseNormal

(***************************************************************************)
(* More vocabulary: the origin's chunks and the frames they should yield.  *)
(***************************************************************************)
\* the fetchAndBroadcast invocation of a FileSession object
TaskOf(sid) == CHOOSE t \in Tasks : tasks[t].sid = sid

\* the bytes a Uint8Array view denotes
Bytes(v) == [k \in 1..v.byteLength |-> v.buffer[v.byteOffset + k]]

\* the chunks that carry data among the values read after the first `from`
DataChunks(reads, from) ==
    SelectSeq(SubSeq(reads, from + 1, Len(reads)), LAMBDA v : v.byteLength > 0)

ChunkFrames(reads, from) ==
    [i \in 1..Len(DataChunks(reads, from)) |->
        BinaryFrame(Bytes(DataChunks(reads, from)[i]))]

\* the transport neither failed nor was reported closed by the peer
Healthy(w) == sockets[w].transport # "broken"

\* the number of data chunks already broadcast when w joined
MissedChunks(w) ==
    LET t == TaskOf(sockets[w].sid)
    IN Len(DataChunks(SubSeq(tasks[t].reads, 1, sockets[w].readsAtJoin), 0))

(***************************************************************************)
(* C4: when a 2xx response's body has ended normally, every subscriber of  *)
(* the session that joined before the first data chunk was broadcast and   *)
(* whose transport stayed healthy has been sent exactly: the headers frame *)
(* of the response, one binary frame per data chunk of the origin in       *)
(* origin order, then done; and the session made exactly one origin fetch. *)
(* (A zero-length read carries no data and yields no frame, line 188.)     *)
(***************************************************************************)
C4_EarlySubscribersGetWholeBody ==
    \A t \in Tasks : tasks[t].pc = "completed" =>
       /\ Ok(tasks[t].status)
       /\ Cardinality(TasksOf(tasks[t].sid)) = 1
       /\ \A w \in Sockets :
             (sockets[w].sid = tasks[t].sid /\ Healthy(w) /\ MissedChunks(w) = 0)
                => Sent(w) = <<HeadersFrame(tasks[t].status, tasks[t].headers)>>
                              \o ChunkFrames(tasks[t].reads, 0)
                              \o <<DoneFrame>>

C4_Witness ==
    \E t \in Tasks : \E w, v \in Sockets :
       /\ tasks[t].pc = "completed"
       /\ Len(DataChunks(tasks[t].reads, 0)) = 2
       /\ sockets[w].sid = tasks[t].sid /\ sockets[v].sid = tasks[t].sid
       /\ Healthy(w) /\ Healthy(v)
       /\ ~sockets[w].headersAtJoin /\ sockets[v].headersAtJoin
       /\ MissedChunks(v) = 0
       /\ Sent(w) = Sent(v) /\ Len(Sent(w)) = 4

(***************************************************************************)
(* C5: a subscriber that joins after k >= 1 data chunks were broadcast is  *)
(* sent the catch-up headers frame in its join, is never sent any of those *)
(* k chunks, and while its transport is healthy has been sent exactly the  *)
(* chunks broadcast since its join, followed by done once the body ended.  *)
(***************************************************************************)
C5_LateJoinerGetsSuffix ==
    \A w \in Sockets : MissedChunks(w) >= 1 =>
       LET task == tasks[TaskOf(sockets[w].sid)]
           suffix == <<HeadersFrame(task.status, task.headers)>>
                        \o ChunkFrames(task.reads, sockets[w].readsAtJoin)
       IN /\ sockets[w].headersAtJoin
          /\ Sent(w) # << >> /\ Sent(w)[1] = suffix[1]
          /\ \A i \in Positions(w, "binary") :
                \A j \in 1..sockets[w].readsAtJoin :
                   Sent(w)[i].data # Bytes(task.reads[j])
          /\ (Healthy(w) /\ task.pc = "read") => Sent(w) = suffix
          /\ (Healthy(w) /\ task.pc = "completed")
                => Sent(w) = suffix \o <<DoneFrame>>

C5_Witness ==
    \E w \in Sockets :
       /\ MissedChunks(w) = 1
       /\ Healthy(w)
       /\ tasks[TaskOf(sockets[w].sid)].pc = "completed"
       /\ Len(Sent(w)) = 3
       /\ Sent(w)[2] = BinaryFrame(<<2>>)

(***************************************************************************)
(* C6: every subscriber that is sent done has been sent every data chunk   *)
(* the origin produced for the session (its outcome is the complete body   *)
(* followed by done, or else an error frame).                              *)
(***************************************************************************)
C6_DoneOnlyAfterWholeBody ==
    \A w \in Sockets : Positions(w, "done") # {} =>
       LET task == tasks[TaskOf(sockets[w].sid)]
       IN [i \in 1..Cardinality(Positions(w, "binary")) |->
             Sent(w)[CHOOSE p \in Positions(w, "binary") :
                Cardinality({q \in Positions(w, "binary") : q <= p}) = i]]
          = ChunkFrames(task.reads, 0)

(***************************************************************************)
(* C7: no subscriber is sent the headers frame more than once; one that    *)
(* joined when the headers were known has it from its join, any other one  *)
(* has at most the copy of the headers broadcast.                          *)
(***************************************************************************)
C7_HeadersAtMostOnce ==
    \A w \in Sockets :
       /\ Cardinality(Positions(w, "headers")) <= 1
       /\ sockets[w].headersAtJoin => Positions(w, "headers") = {1}

C7_Witness ==
    \E w, v \in Sockets :
       /\ sockets[w].sid = sockets[v].sid
       /\ ~sockets[w].headersAtJoin /\ sockets[v].headersAtJoin
       /\ Cardinality(Positions(w, "headers")) = 1
       /\ Cardinality(Positions(v, "headers")) = 1
       /\ Positions(w, "binary") # {} /\ Positions(v, "binary") # {}

(***************************************************************************)
(* C8: a subscriber that joins a session whose headers are set has, from   *)
(* its join on, exactly one headers frame, as its first frame, and that    *)
(* frame equals the origin's status and headers and every headers frame    *)
(* sent to the other subscribers of the session.                           *)
(***************************************************************************)
C8_CatchUpHeadersMatch ==
    \A w \in Sockets : sockets[w].headersAtJoin =>
       LET task == tasks[TaskOf(sockets[w].sid)]
       IN /\ Positions(w, "headers") = {1}
          /\ Sent(w)[1] = HeadersFrame(task.status, task.headers)
          /\ \A v \in Sockets : \A i \in Positions(v, "headers") :
                sockets[v].sid = sockets[w].sid => Sent(v)[i] = Sent(w)[1]

C8_Witness ==
    \E w, v \in Sockets :
       /\ sockets[w].headersAtJoin /\ ~sockets[v].headersAtJoin
       /\ sockets[v].sid = sockets[w].sid
       /\ Sent(w) = <<HeadersFrame(206, 2)>>
       /\ Positions(v, "headers") = {1}

(***************************************************************************)
(* C9: two requests share a session, and have the same key, if and only if *)
(* their object locators are equal and their range descriptors are equal.  *)
(***************************************************************************)
C9_SameKeyIffSameRequest ==
    \A w, v \in Sockets :
       LET same == /\ sockets[w].b2Url = sockets[v].b2Url
                   /\ sockets[w].rangeHeader = sockets[v].rangeHeader
       IN /\ (sockets[w].sessionKey = sockets[v].sessionKey) <=> same
          /\ (sockets[w].sid = sockets[v].sid) <=> same

(***************************************************************************)
(* C10: two joins with the same url and different ranges are attached to   *)
(* two different sessions under different keys, each session has exactly   *)
(* one origin fetch of its own, and the fetch of a session carries the url *)
(* and the range of the join that created the session.                     *)
(***************************************************************************)
C10_DifferentRangesDistinctSessions ==
    \A w, v \in Sockets :
       (sockets[w].b2Url = sockets[v].b2Url
          /\ sockets[w].rangeHeader # sockets[v].rangeHeader) =>
       /\ sockets[w].sid # sockets[v].sid
       /\ sockets[w].sessionKey # sockets[v].sessionKey
       /\ \A x \in {w, v} :
             /\ Cardinality(TasksOf(sockets[x].sid)) = 1
             /\ Creator(sockets[x].sid) = x =>
                   LET task == tasks[TaskOf(sockets[x].sid)]
                   IN /\ task.requestUrl = sockets[x].b2Url
                      /\ task.requestHeaders
                            = RequestHeaders(sockets[x].rangeHeader)
       /\ TaskOf(sockets[w].sid) # TaskOf(sockets[v].sid)

C10_Witness ==
    \E w, v \in Sockets :
       /\ sockets[w].b2Url = sockets[v].b2Url
       /\ sockets[w].rangeHeader # sockets[v].rangeHeader
       /\ Running(TaskOf(sockets[w].sid)) /\ Running(TaskOf(sockets[v].sid))
       /\ TaskOf(sockets[w].sid) # TaskOf(sockets[v].sid)
       /\ Positions(w, "binary") # {} /\ Positions(v, "headers") # {}

(***************************************************************************)
(* More vocabulary: the ways a leader fetch ends.                          *)
(***************************************************************************)
\* the origin answered with a status outside 2xx
NonSuccess(t) ==
    tasks[t].status # Null /\ (tasks[t].status < 200 \/ tasks[t].status > 299)

Ended(t) == tasks[t].pc \in {"completed", "failed"}

\* the subscribers that joined the session of task t
SubscribersOf(t) == {w \in Sockets : sockets[w].sid = tasks[t].sid}

(***************************************************************************)
(* C11: when the origin answers with a status outside 2xx, no subscriber   *)
(* of the session is ever sent a binary or a done frame, and once the      *)
(* fetch has ended the session is out of the registry and every subscriber *)
(* whose transport stayed healthy has been sent an error frame whose       *)
(* status is the origin's status.                                          *)
(***************************************************************************)
C11_ErrorFrameHasOriginStatus ==
    \A t \in Tasks : NonSuccess(t) =>
       /\ \A w \in SubscribersOf(t) :
             Positions(w, "binary") = {} /\ Positions(w, "done") = {}
       /\ Ended(t) =>
             /\ ~Registered(tasks[t].sid)
             /\ \A w \in SubscribersOf(t) : Healthy(w) =>
                   \E i \in Positions(w, "error") :
                      Sent(w)[i].status = tasks[t].status

(***************************************************************************)
(* C11, amended: as above, but the error frame carries the origin's status *)
(* only when the error body was read; when reading the error body fails    *)
(* the frame carries the generic status 500.  In both cases a healthy      *)
(* subscriber has been sent exactly the headers frame and that one error   *)
(* frame.                                                                  *)
(***************************************************************************)
C11_ErrorFrameStatusByPath ==
    \A t \in Tasks : NonSuccess(t) =>
       /\ \A w \in SubscribersOf(t) :
             Positions(w, "binary") = {} /\ Positions(w, "done") = {}
       /\ Ended(t) =>
             /\ tasks[t].pc = "failed"
             /\ ~Registered(tasks[t].sid)
             /\ \A w \in SubscribersOf(t) : Healthy(w) =>
                   Sent(w) = << HeadersFrame(tasks[t].status, tasks[t].headers),
                                ErrorFrame(IF tasks[t].threw THEN GenericStatus
                                           ELSE tasks[t].status,
                                           heap[tasks[t].sid].error) >>

C11_Witness ==
    \E t \in Tasks : \E w, v \in SubscribersOf(t) :
       /\ tasks[t].pc = "failed" /\ ~tasks[t].threw
       /\ w # v /\ Healthy(w) /\ Healthy(v)
       /\ ~sockets[w].headersAtJoin /\ sockets[v].headersAtJoin
       /\ Sent(w) = << HeadersFrame(404, 1), ErrorFrame(404, 501) >>
       /\ Sent(v) = Sent(w)
       /\ sockets[w].closeCode = CloseNormal

(***************************************************************************)
(* C12: when reading the origin body fails after the headers were          *)
(* broadcast, the session has ended as failed with its error recorded and  *)
(* is out of the registry; no subscriber was sent done or a second error,  *)
(* and every subscriber whose transport stayed healthy has been sent       *)
(* exactly the headers frame, the data chunks broadcast since its join,    *)
(* and one error frame with status 500.                                    *)
(***************************************************************************)
C12_ReadFailureEndsInError ==
    \A t \in Tasks : (tasks[t].threw /\ tasks[t].body) =>
       /\ tasks[t].pc = "failed"
       /\ heap[tasks[t].sid].error # Null
       /\ ~Registered(tasks[t].sid)
       /\ \A w \in SubscribersOf(t) :
             /\ Positions(w, "done") = {}
             /\ Cardinality(Positions(w, "error")) <= 1
             /\ Healthy(w) =>
                   Sent(w) = << HeadersFrame(tasks[t].status, tasks[t].headers) >>
                             \o ChunkFrames(tasks[t].reads, sockets[w].readsAtJoin)
                             \o << ErrorFrame(500, heap[tasks[t].sid].error) >>

C12_Witness ==
    \E t \in Tasks : \E w, v \in SubscribersOf(t) :
       /\ tasks[t].threw /\ tasks[t].body
       /\ Healthy(w) /\ Healthy(v)
       /\ sockets[w].readsAtJoin = 0 /\ sockets[v].readsAtJoin = 1
       /\ Len(DataChunks(tasks[t].reads, 0)) = 2
       /\ Len(Sent(w)) = 4 /\ Len(Sent(v)) = 3
       /\ Sent(v)[3] = ErrorFrame(500, 501)

(***************************************************************************)
(* C13: when the origin fetch fails before any response arrives, the       *)
(* session's responseStatus and responseHeaders are still unset, the       *)
(* session is out of the registry, no subscriber was sent a headers, a     *)
(* binary or a done frame, and every subscriber whose transport stayed     *)
(* healthy has been sent exactly one error frame, with status 500.         *)
(***************************************************************************)
C13_FetchFailureBeforeHeaders ==
    \A t \in Tasks : (Ended(t) /\ tasks[t].status = Null) =>
       /\ tasks[t].pc = "failed" /\ tasks[t].threw
       /\ heap[tasks[t].sid].responseStatus = Null
       /\ heap[tasks[t].sid].responseHeaders = Null
       /\ ~Registered(tasks[t].sid)
       /\ \A w \in SubscribersOf(t) :
             /\ Positions(w, "headers") = {}
             /\ Positions(w, "binary") = {}
             /\ Positions(w, "done") = {}
             /\ Cardinality(Positions(w, "error")) <= 1
             /\ Healthy(w) =>
                   /\ Sent(w) = << ErrorFrame(500, heap[tasks[t].sid].error) >>
                   /\ sockets[w].closeCode = CloseNormal

C13_Witness ==
    \E t \in Tasks : \E w, v \in SubscribersOf(t) :
       /\ tasks[t].pc = "failed" /\ tasks[t].status = Null
       /\ w # v /\ Healthy(w) /\ Healthy(v)
       /\ Sent(w) = << ErrorFrame(500, 0) >> /\ Sent(v) = Sent(w)
       /\ heap[tasks[t].sid].totalClients = 2

(***************************************************************************)
(* More vocabulary: the frames the leader fetch of w's session has         *)
(* produced since w joined, as told by the fetch's own record.             *)
(***************************************************************************)
ExpectedFrames(w) ==
    LET task == tasks[TaskOf(sockets[w].sid)]
        head == IF task.status # Null
                THEN << HeadersFrame(task.status, task.headers) >>
                ELSE << >>
        tail == IF task.pc = "completed" THEN << DoneFrame >>
                ELSE IF task.pc = "failed"
                THEN << ErrorFrame(IF task.threw THEN GenericStatus
                                   ELSE task.status,
                                   heap[task.sid].error) >>
                ELSE << >>
    IN head \o ChunkFrames(task.reads, sockets[w].readsAtJoin) \o tail

(***************************************************************************)
(* C14: when the transport of one subscriber of a session has failed, so   *)
(* that deliveries to it fail and it is pruned, every other subscriber of  *)
(* the session whose transport is healthy has been sent every frame the    *)
(* fetch produced since its join, that frame included and the later ones   *)
(* too, up to the terminal frame of the outcome the origin's events        *)
(* determine; and the ended fetch has left the registry.                   *)
(***************************************************************************)
C14_FailedDeliveryIsContained ==
    \A v \in Sockets : ~Healthy(v) =>
       \A w \in Sockets \ {v} :
          (sockets[w].sid = sockets[v].sid /\ Healthy(w)) =>
             /\ Sent(w) = ExpectedFrames(w)
             /\ Ended(TaskOf(sockets[w].sid)) => ~Registered(sockets[w].sid)

C14_Witness ==
    \E v, w \in Sockets :
       /\ v < w /\ sockets[w].sid = sockets[v].sid
       /\ ~Healthy(v) /\ v \notin heap[sockets[v].sid].clients
       /\ Sent(v) = << HeadersFrame(200, 1) >>
       /\ Healthy(w) /\ sockets[w].readsAtJoin = 0
       /\ Len(Sent(w)) = 4 /\ Sent(w)[4] = DoneFrame
       /\ Sent(w)[2].type = "binary" /\ Sent(w)[3].type = "binary"

(***************************************************************************)
(* C15: under a responsive origin and a fair event loop, every leader      *)
(* fetch that has started eventually ends, and then teardown has run: the  *)
(* session is out of the registry and every subscriber that was attached   *)
(* at teardown has been closed with the normal closure code 1000.          *)
(***************************************************************************)
C15_TeardownEventuallyRuns ==
    \A t \in 1..MaxSessions :
       (t \in Tasks) ~>
          (/\ t \in Tasks
           /\ Ended(t)
           /\ ~Registered(tasks[t].sid)
           /\ \A w \in heap[tasks[t].sid].clients :
                 sockets[w].closeCode = 1000 /\ sockets[w].transport = "closed")

C15_Witness ==
    \E t, u \in Tasks : \E w, v \in Sockets :
       /\ tasks[t].pc = "completed" /\ tasks[u].pc = "failed" /\ tasks[u].threw
       /\ ~Registered(tasks[t].sid) /\ ~Registered(tasks[u].sid)
       /\ w \in heap[tasks[t].sid].clients /\ v \in heap[tasks[u].sid].clients
       /\ sockets[w].closeCode = 1000 /\ sockets[v].closeCode = 1000
       /\ sessions = << >>

(***************************************************************************)
(* C16: a join whose key belonged to a session that has ended, and has no  *)
(* running fetch now, creates a new FileSession object registered under    *)
(* the key: no headers, no status, no error, the joiner as its only        *)
(* client, totalClients 1, no frame sent to the joiner, and its own origin *)
(* fetch just started.  No step changes a FileSession object that is out   *)
(* of the registry, so nobody is ever attached to a torn-down instance.    *)
(***************************************************************************)
C16_RejoinCreatesFreshSession ==
    [][ /\ Len(sockets') = Len(sockets) + 1 =>
             LET ws == Len(sockets')
                 key == sockets'[ws].sessionKey
                 sid == sockets'[ws].sid
             IN ( /\ \E t \in Tasks : tasks[t].sessionKey = key /\ Ended(t)
                  /\ \A t \in Tasks : tasks[t].sessionKey = key => Ended(t) )
                => /\ sid \notin DOMAIN heap
                   /\ sid \in DOMAIN heap'
                   /\ key \in DOMAIN sessions' /\ sessions'[key] = sid
                   /\ heap'[sid].responseHeaders = Null
                   /\ heap'[sid].responseStatus = Null
                   /\ heap'[sid].error = Null
                   /\ heap'[sid].clients = {ws}
                   /\ heap'[sid].totalClients = 1
                   /\ heap'[sid].fetchInProgress
                   /\ sockets'[ws].sent = << >>
                   /\ \E t \in DOMAIN tasks' \ DOMAIN tasks :
                         /\ tasks'[t].sid = sid
                         /\ tasks'[t].sessionKey = key
                         /\ tasks'[t].pc = "fetch"
        /\ \A sid \in DOMAIN heap : ~Registered(sid) => heap'[sid] = heap[sid]
      ]_vars

C16_Witness ==
    \E old, new \in Objects : \E w, v \in Sockets :
       /\ old < new
       /\ tasks[TaskOf(old)].sessionKey = tasks[TaskOf(new)].sessionKey
       /\ Ended(TaskOf(old)) /\ ~Registered(old)
       /\ heap[old].responseHeaders # Null /\ heap[old].clients = {v}
       /\ Registered(new) /\ tasks[TaskOf(new)].pc = "fetch"
       /\ sockets[w].sid = new /\ sockets[w].sessionKey = sockets[v].sessionKey
       /\ heap[new].clients = {w} /\ heap[new].totalClients = 1
       /\ heap[new].responseHeaders = Null /\ heap[new].error = Null
       /\ Sent(w) = << >> /\ Sent(v) # << >>

(***************************************************************************)
(* C17: a webSocketClose or webSocketError notification for subscriber ws  *)
(* leaves the registry, every fetchAndBroadcast invocation, the frames     *)
(* sent to every subscriber and every other socket unchanged; of the       *)
(* FileSession objects it changes at most the one registered under ws's    *)
(* key, and of that one only the client set, from which it removes ws and  *)
(* nobody else.  When no session is registered under ws's key, no          *)
(* FileSession object changes at all.                                      *)
(***************************************************************************)
C17_NotificationOnlyDetaches ==
    [][ \A ws \in Sockets : (webSocketClose(ws) \/ webSocketError(ws)) =>
           LET sid == Get(sessions, sockets[ws].sessionKey)
           IN /\ sessions' = sessions
              /\ tasks' = tasks
              /\ DOMAIN sockets' = DOMAIN sockets
              /\ \A w \in Sockets :
                    /\ sockets'[w].sent = sockets[w].sent
                    /\ sockets'[w].closeCode = sockets[w].closeCode
                    /\ w # ws => sockets'[w] = sockets[w]
              /\ DOMAIN heap' = DOMAIN heap
              /\ \A o \in Objects :
                    heap'[o] = [heap[o] EXCEPT
                                  !.clients = IF o = sid THEN @ \ {ws} ELSE @]
              /\ sid = Null => heap' = heap
      ]_vars

C17_Witness ==
    \E w, v \in Sockets :
       /\ w # v /\ sockets[w].sid = sockets[v].sid
       /\ Registered(sockets[w].sid) /\ tasks[TaskOf(sockets[w].sid)].pc = "read"
       /\ ~Healthy(w) /\ w \notin heap[sockets[w].sid].clients
       /\ Healthy(v) /\ heap[sockets[w].sid].clients = {v}
       /\ heap[sockets[w].sid].totalClients = 2
       /\ Sent(w) = Sent(v) /\ Len(Sent(w)) = 2

(***************************************************************************)
(* C18: a running leader fetch keeps its session in the registry, with or  *)
(* without clients; a join that finds its key registered with an empty     *)
(* client set is attached to that same FileSession object and starts no    *)
(* fetch; and, under a responsive origin, a fetch whose session has lost   *)
(* every client still comes to its end.                                    *)
(***************************************************************************)
C18_FetchOutlivesSubscribers ==
    /\ [](\A t \in Tasks : Running(t) => Registered(tasks[t].sid))
    /\ [][ Len(sockets') = Len(sockets) + 1 =>
              LET ws == Len(sockets')
                  sid == Get(sessions, sockets'[ws].sessionKey)
              IN (sid # Null /\ heap[sid].clients = {}) =>
                    /\ sockets'[ws].sid = sid
                    /\ heap'[sid].clients = {ws}
                    /\ sessions' = sessions
                    /\ tasks' = tasks
         ]_vars
    /\ \A t \in 1..MaxSessions :
          (t \in Tasks /\ Running(t) /\ heap[tasks[t].sid].clients = {})
             ~> (t \in Tasks /\ Ended(t))

C18_Witness ==
    \E t \in Tasks : \E w, v \in SubscribersOf(t) :
       /\ w < v /\ SubscribersOf(t) = {w, v}
       /\ ~Healthy(w) /\ Sent(w) = << HeadersFrame(200, 1) >>
       /\ Len(tasks[t].reads) >= 1 /\ tasks[t].reads[1].byteLength > 0
       /\ sockets[v].readsAtJoin = 1
       /\ tasks[t].pc = "completed"
       /\ Sent(v) = << HeadersFrame(200, 1), DoneFrame >>
       /\ TasksOf(tasks[t].sid) = {t}

(***************************************************************************)
(* C19: in every state between two handlers, every FileSession object in   *)
(* the registry has its leader fetch still running and none of its         *)
(* subscribers has been sent done or error; and a FileSession object that  *)
(* is out of the registry is never put into it again.                      *)
(***************************************************************************)
C19_RegistryHoldsOnlyLiveSessions ==
    /\ [](\A sid \in Objects : Registered(sid) =>
             /\ TasksOf(sid) # {}
             /\ \A t \in TasksOf(sid) : Running(t)
             /\ \A w \in Sockets : sockets[w].sid = sid => Terminal(w) = {})
    /\ [][ \A sid \in DOMAIN heap :
              ~Registered(sid) =>
                 \A k \in DOMAIN sessions' : sessions'[k] # sid ]_vars

C19_Witness ==
    \E old, new \in Objects : \E v, w \in Sockets :
       /\ old # new
       /\ tasks[TaskOf(old)].sessionKey = tasks[TaskOf(new)].sessionKey
       /\ ~Registered(old) /\ tasks[TaskOf(old)].pc = "completed"
       /\ sockets[v].sid = old /\ Positions(v, "done") # {}
       /\ Registered(new) /\ tasks[TaskOf(new)].pc = "read"
       /\ sockets[w].sid = new /\ Positions(w, "binary") # {}
       /\ Terminal(w) = {}

(***************************************************************************)
(* C20: fetch() never waits for the origin.  Whatever promise the leader   *)
(* fetch of a session is awaiting, a join on the session's key can run     *)
(* (the bounds permitting), and each join is one step that returns the 101 *)
(* response with the joiner attached, the catch-up headers sent if they    *)
(* were known, a fetch running for the session, and every fetch that       *)
(* existed before the join exactly where it was.                           *)
(***************************************************************************)
C20_JoinNeverWaits ==
    /\ [](NextWs <= MaxSubs =>
             \A in \in JoinInputs :
                LET sid == Get(sessions, BuildKey(in[1], RangeOf(in[2])))
                IN (sid # Null /\ \E t \in TasksOf(sid) : Running(t))
                      => ENABLED Join(in[1], in[2]))
    /\ [][ Len(sockets') = Len(sockets) + 1 =>
              LET ws == Len(sockets')
                  sid == sockets'[ws].sid
              IN /\ sockets'[ws].response = 101
                 /\ ws \in heap'[sid].clients
                 /\ sessions'[sockets'[ws].sessionKey] = sid
                 /\ \A t \in DOMAIN tasks : tasks'[t] = tasks[t]
                 /\ \E t \in DOMAIN tasks' :
                       tasks'[t].sid = sid /\ tasks'[t].pc \in {"fetch", "text", "read"}
                 /\ sockets'[ws].sent =
                       IF sid \in DOMAIN heap /\ heap[sid].responseHeaders # Null
                       THEN << HeadersFrame(heap[sid].responseStatus,
                                            heap[sid].responseHeaders) >>
                       ELSE << >>
         ]_vars

C20_Witness ==
    \E t \in Tasks : \E w, v \in SubscribersOf(t) :
       /\ tasks[t].pc = "read" /\ Len(tasks[t].reads) = 1
       /\ ~sockets[w].headersAtJoin
       /\ sockets[v].headersAtJoin /\ sockets[v].readsAtJoin = 1
       /\ sockets[w].response = 101 /\ sockets[v].response = 101
       /\ heap[tasks[t].sid].clients = {w, v}
       /\ Sent(v) = << HeadersFrame(206, 2) >>

(***************************************************************************)
(* C21: a FileSession object whose leader fetch has failed has had exactly *)
(* that one origin request; a failed invocation never runs again; and an   *)
(* origin request is only ever issued by a join that creates a new         *)
(* FileSession object, for that object, at a moment when every earlier     *)
(* request for the same key has ended.                                     *)
(***************************************************************************)
C21_NoRetryAfterFailure ==
    /\ [](\A t \in Tasks : tasks[t].pc = "failed" => TasksOf(tasks[t].sid) = {t})
    /\ [][ /\ \A t \in Tasks : tasks[t].pc = "failed" =>
                 t \in DOMAIN tasks' /\ tasks'[t] = tasks[t]
           /\ \A t \in DOMAIN tasks' \ DOMAIN tasks :
                 /\ Len(sockets') = Len(sockets) + 1
                 /\ DOMAIN tasks' = DOMAIN tasks \cup {t}
                 /\ tasks'[t].sid \notin DOMAIN heap
                 /\ tasks'[t].sid = sockets'[Len(sockets')].sid
                 /\ tasks'[t].by = Len(sockets')
                 /\ \A u \in Tasks :
                       tasks[u].sessionKey = tasks'[t].sessionKey => Ended(u)
         ]_vars

C21_Witness ==
    \E t, u \in Tasks :
       /\ t < u /\ tasks[t].sessionKey = tasks[u].sessionKey
       /\ tasks[t].pc = "failed" /\ tasks[t].threw /\ tasks[t].status = Null
       /\ tasks[u].pc = "failed" /\ ~tasks[u].threw /\ tasks[u].status = 404
       /\ tasks[t].sid # tasks[u].sid
       /\ tasks[u].by = 2
       /\ heap[tasks[t].sid].totalClients = 1

(***************************************************************************)
(* C22: every error frame sent to a subscriber carries a message of at     *)
(* most 500 characters, whether it was cut from the origin's error body or *)
(* from an exception's message.                                            *)
(***************************************************************************)
C22_ErrorMessageBounded ==
    \A w \in Sockets : \A i \in Positions(w, "error") :
       Sent(w)[i].message >= 0 /\ Sent(w)[i].message <= 500

C22_Witness ==
    \E w, v \in Sockets :
       /\ sockets[w].sid # sockets[v].sid
       /\ heap[sockets[w].sid].error = 501 /\ heap[sockets[v].sid].error = 501
       /\ ~tasks[TaskOf(sockets[w].sid)].threw
       /\ tasks[TaskOf(sockets[v].sid)].threw
       /\ Sent(w) = << HeadersFrame(404, 1), ErrorFrame(404, 500) >>
       /\ Sent(v) = << ErrorFrame(500, 500) >>

(***************************************************************************)
(* C23: the error field of a FileSession object is set only when the       *)
(* session's leader fetch has failed, and what it holds is at most 500     *)
(* characters long.                                                        *)
(***************************************************************************)
C23_FailureReasonBounded ==
    \A sid \in Objects : heap[sid].error # Null =>
       /\ \E t \in TasksOf(sid) : tasks[t].pc = "failed"
       /\ heap[sid].error <= 500

(***************************************************************************)
(* C24: every subscriber the broker has closed was closed with code 1000   *)
(* and had been sent exactly one terminal frame, done or error, as the     *)
(* last frame before the close.                                            *)
(***************************************************************************)
C24_CloseFollowsTerminalFrame ==
    \A w \in Sockets : sockets[w].closeCode # Null =>
       /\ sockets[w].closeCode = 1000
       /\ Sent(w) # << >>
       /\ Terminal(w) = {Len(Sent(w))}

C24_Witness ==
    \E w, v \in Sockets :
       /\ sockets[w].sid = sockets[v].sid /\ w < v
       /\ sockets[w].closeCode = 1000 /\ Terminal(w) = {3}
       /\ Sent(w)[3] = DoneFrame
       /\ ~Healthy(v) /\ sockets[v].closeCode = Null
       /\ Sent(v) = << HeadersFrame(200, 1) >>
       /\ ~Registered(sockets[w].sid)

(***************************************************************************)
(* C25: responseStatus and responseHeaders of a FileSession object are     *)
(* both unset exactly as long as its leader fetch has received no          *)
(* response; they are set in a single step, the one in which the fetch     *)
(* receives the response, to the response's status and headers; and once   *)
(* set neither ever changes.                                               *)
(***************************************************************************)
C25_ResponseInfoSetOnce ==
    /\ [](\A sid \in Objects :
             /\ (heap[sid].responseStatus = Null)
                   <=> (heap[sid].responseHeaders = Null)
             /\ \A t \in TasksOf(sid) :
                   /\ heap[sid].responseStatus = tasks[t].status
                   /\ heap[sid].responseHeaders = tasks[t].headers
                   /\ tasks[t].pc = "fetch" => heap[sid].responseStatus = Null)
    /\ [][ \A sid \in DOMAIN heap :
              /\ heap[sid].responseStatus # Null =>
                    /\ heap'[sid].responseStatus = heap[sid].responseStatus
                    /\ heap'[sid].responseHeaders = heap[sid].responseHeaders
              /\ (heap[sid].responseStatus = Null
                    /\ heap'[sid].responseStatus # Null) =>
                    /\ heap'[sid].responseHeaders # Null
                    /\ \E t \in TasksOf(sid) :
                          tasks[t].pc = "fetch" /\ tasks'[t].pc # "fetch"
         ]_vars

C25_Witness ==
    \E sid, other \in Objects : \E w \in Sockets :
       /\ heap[sid].responseStatus = 206 /\ heap[sid].responseHeaders = 2
       /\ tasks[TaskOf(sid)].pc = "failed" /\ tasks[TaskOf(sid)].threw
       /\ Len(tasks[TaskOf(sid)].reads) = 2
       /\ heap[other].responseStatus = Null /\ heap[other].responseHeaders = Null
       /\ tasks[TaskOf(other)].pc = "fetch"
       /\ sockets[w].sid = other /\ Sent(w) = << >>

(***************************************************************************)
(* C26: in every reachable state, closeSession for a key under which no    *)
(* session is registered returns the store as it is (no frame sent, no     *)
(* socket closed, nothing removed), and closeSession twice for one key     *)
(* yields what closeSession once yields; on the paths that run it twice    *)
(* no socket has had close() called on it more than once.                  *)
(***************************************************************************)
C26_TeardownIdempotent ==
    /\ \A in \in JoinInputs :
          LET key == BuildKey(in[1], RangeOf(in[2]))
          IN /\ key \notin DOMAIN sessions => CloseSession(Store, key) = Store
             /\ CloseSession(CloseSession(Store, key), key)
                   = CloseSession(Store, key)
    /\ \A w \in Sockets : sockets[w].closes <= 1

C26_Witness ==
    \E t \in Tasks : \E w, v \in SubscribersOf(t) :
       /\ w # v
       /\ tasks[t].pc = "failed" /\ ~tasks[t].threw
       /\ tasks[t].sessionKey \notin DOMAIN sessions
       /\ sockets[w].closes = 1 /\ sockets[v].closes = 1
       /\ sockets[w].closeCode = 1000
       /\ CloseSession(Store, tasks[t].sessionKey) = Store

(***************************************************************************)
(* More vocabulary: the binary frames sent to a subscriber, in order.      *)
(***************************************************************************)
BinaryFramesOf(w) == SelectSeq(Sent(w), LAMBDA f : f.type = "binary")

IsPrefix(s, r) == Len(s) <= Len(r) /\ s = SubSeq(r, 1, Len(s))

(***************************************************************************)
(* C27: the binary frames sent to a subscriber whose transport is healthy  *)
(* are, one for one and in order, the values read from the origin body     *)
(* since its join, each frame carrying the bytes of its value.             *)
(***************************************************************************)
C27_EveryReadIsOneFrame ==
    \A w \in Sockets : Healthy(w) =>
       LET reads == tasks[TaskOf(sockets[w].sid)].reads
           from == sockets[w].readsAtJoin
       IN /\ Len(BinaryFramesOf(w)) = Len(reads) - from
          /\ \A i \in 1..Len(BinaryFramesOf(w)) :
                BinaryFramesOf(w)[i].data = Bytes(reads[from + i])

(***************************************************************************)
(* C27, amended: the binary frames sent to a subscriber whose transport is *)
(* healthy are, one for one and in order, the values of non-zero length    *)
(* read from the origin body since its join, each frame carrying exactly   *)
(* the bytes of its value; a value of zero length yields no frame.  A      *)
(* subscriber whose transport failed holds a prefix of these frames.       *)
(***************************************************************************)
C27_EveryDataChunkIsOneFrame ==
    \A w \in Sockets :
       LET reads == tasks[TaskOf(sockets[w].sid)].reads
           from == sockets[w].readsAtJoin
           data == DataChunks(reads, from)
       IN /\ IsPrefix(BinaryFramesOf(w), ChunkFrames(reads, from))
          /\ Healthy(w) =>
                /\ Len(BinaryFramesOf(w)) = Len(data)
                /\ \A i \in 1..Len(data) :
                      /\ BinaryFramesOf(w)[i].data = Bytes(data[i])
                      /\ Len(BinaryFramesOf(w)[i].data) = data[i].byteLength

C27_Witness ==
    \E t \in Tasks : \E w \in SubscribersOf(t) :
       /\ Len(tasks[t].reads) = 2
       /\ tasks[t].reads[1].byteLength = 0 /\ tasks[t].reads[2].byteLength = 1
       /\ Healthy(w) /\ sockets[w].readsAtJoin = 0
       /\ Len(BinaryFramesOf(w)) = 1
       /\ BinaryFramesOf(w)[1].data = << 2 >>

(***************************************************************************)
(* C28: totalClients of a FileSession object equals the number of joins    *)
(* that attached to the object and is at least the size of its client set; *)
(* a join adds exactly one to the counter of the object it attaches to,    *)
(* and no step ever lowers a counter.                                      *)
(***************************************************************************)
C28_TotalJoinedCountsJoins ==
    /\ [](\A sid \in Objects :
             /\ heap[sid].totalClients
                   = Cardinality({w \in Sockets : sockets[w].sid = sid})
             /\ heap[sid].totalClients >= Cardinality(heap[sid].clients)
             /\ heap[sid].totalClients >= 1)
    /\ [][ /\ \A sid \in DOMAIN heap :
                 heap'[sid].totalClients >= heap[sid].totalClients
           /\ Len(sockets') = Len(sockets) + 1 =>
                 LET sid == sockets'[Len(sockets')].sid
                 IN heap'[sid].totalClients
                       = (IF sid \in DOMAIN heap
                          THEN heap[sid].totalClients ELSE 0) + 1
         ]_vars

C28_Witness ==
    \E sid \in Objects : \E w, v \in Sockets :
       /\ w # v /\ sockets[w].sid = sid /\ sockets[v].sid = sid
       /\ heap[sid].totalClients = 2
       /\ Registered(sid) /\ heap[sid].clients = {}
       /\ ~Healthy(w) /\ ~Healthy(v)
       /\ Len(Sent(w)) > Len(Sent(v))

(***************************************************************************)
(* C29: the origin request of a leader fetch goes to the url of the join   *)
(* that created the session; when that join's range is empty the request   *)
(* carries no header at all, and otherwise it carries exactly one header,  *)
(* Range, whose value is that range.                                       *)
(***************************************************************************)
C29_OnlyRangeForwarded ==
    \A t \in Tasks :
       LET creator == sockets[tasks[t].by]
       IN /\ creator.sid = tasks[t].sid
          /\ tasks[t].requestUrl = creator.b2Url
          /\ creator.rangeHeader = << >> => tasks[t].requestHeaders = {}
          /\ creator.rangeHeader # << >> =>
                tasks[t].requestHeaders = {<<"Range", creator.rangeHeader>>}

C29_Witness ==
    \E t, u \in Tasks :
       /\ tasks[t].requestHeaders = {}
       /\ tasks[u].requestHeaders = {<<"Range", <<"|", "b">> >>}
       /\ tasks[t].requestUrl = <<"a">> /\ tasks[u].requestUrl = <<"a">>
       /\ tasks[t].status = 200 /\ tasks[u].status = 206

(***************************************************************************)
(* C30: for an origin status outside 2xx, every subscriber that has been   *)
(* sent an error frame was sent the headers frame with the origin's status *)
(* and headers first, as its first frame, and while the error body is      *)
(* being read every subscriber whose transport is healthy already holds    *)
(* exactly that headers frame, whether it joined before the response or    *)
(* during the read.                                                        *)
(***************************************************************************)
C30_HeadersBeforeError ==
    \A t \in Tasks : NonSuccess(t) =>
       \A w \in SubscribersOf(t) :
          /\ Positions(w, "error") # {} =>
                /\ Positions(w, "headers") = {1}
                /\ Sent(w)[1] = HeadersFrame(tasks[t].status, tasks[t].headers)
                /\ Positions(w, "error") = {2}
          /\ (tasks[t].pc = "text" /\ Healthy(w)) =>
                Sent(w) = << HeadersFrame(tasks[t].status, tasks[t].headers) >>

C30_Witness ==
    \E t \in Tasks : \E w, v \in SubscribersOf(t) :
       /\ tasks[t].pc = "failed" /\ tasks[t].threw /\ tasks[t].status = 404
       /\ ~sockets[w].headersAtJoin /\ sockets[v].headersAtJoin
       /\ Sent(w) = << HeadersFrame(404, 1), ErrorFrame(500, 0) >>
       /\ Sent(v) = Sent(w)

(***************************************************************************)
(* More vocabulary for steps: s -> s'.                                     *)
(***************************************************************************)
\* the frames sent to w in this step
NewFrames(w) == SubSeq(sockets'[w].sent, Len(sockets[w].sent) + 1,
                       Len(sockets'[w].sent))

\* the step is a resumption of the leader fetch of FileSession object sid
FetchStepOf(sid) == \E t \in TasksOf(sid) : tasks'[t] # tasks[t]

(***************************************************************************)
(* C31: in a step of a session's leader fetch that broadcasts, every       *)
(* client that was in the session's set with a working transport is sent   *)
(* the step's frames once, the same frames as every other such client, and *)
(* stays in the set; every client in the set whose send throws is sent     *)
(* nothing and is out of the set after the step.  A socket that is in no   *)
(* registered session's set is never sent a frame again and never put back *)
(* into a set.                                                             *)
(***************************************************************************)
C31_BroadcastReachesEachClientOnce ==
    [][ \A w \in Sockets :
           LET sid == sockets[w].sid
               wasIn == w \in heap[sid].clients
           IN /\ IsPrefix(sockets[w].sent, sockets'[w].sent)
              /\ ~(Registered(sid) /\ wasIn) =>
                    /\ NewFrames(w) = << >>
                    /\ \A o \in DOMAIN heap :
                          w \in heap'[o].clients => w \in heap[o].clients
              /\ (Registered(sid) /\ wasIn /\ FetchStepOf(sid)) =>
                    IF CanSend(sockets[w])
                    THEN /\ w \in heap'[sid].clients
                         /\ \A v \in heap[sid].clients :
                               CanSend(sockets[v]) => NewFrames(v) = NewFrames(w)
                         /\ \A i, j \in 1..Len(NewFrames(w)) :
                               i # j => NewFrames(w)[i] # NewFrames(w)[j]
                    ELSE /\ NewFrames(w) = << >>
                         /\ \/ w \notin heap'[sid].clients
                            \/ \A v \in heap[sid].clients : NewFrames(v) = << >>
              /\ (Registered(sid) /\ wasIn /\ ~FetchStepOf(sid)) =>
                    NewFrames(w) = << >>
      ]_vars

C31_Witness ==
    \E w, v \in Sockets :
       /\ w < v /\ sockets[w].sid = sockets[v].sid
       /\ Registered(sockets[w].sid)
       /\ tasks[TaskOf(sockets[w].sid)].pc = "read"
       /\ ~Healthy(w) /\ heap[sockets[w].sid].clients = {v}
       /\ ~sockets[v].headersAtJoin
       /\ Sent(w) = << >>
       /\ Len(Sent(v)) = 3 /\ Positions(v, "binary") = {2, 3}

(***************************************************************************)
(* C32: the key of a running leader fetch is registered to the FileSession *)
(* object the fetch was started for, and a step of a leader fetch changes  *)
(* nothing of any other FileSession object, also not of one registered     *)
(* later under the same key: it sends no frame to the sockets that joined  *)
(* another object, does not close them, and leaves the other object's      *)
(* fields and registry entry as they are.                                  *)
(***************************************************************************)
C32_FetchActsOnOwnInstance ==
    /\ [](\A t \in Tasks : Running(t) =>
             Get(sessions, tasks[t].sessionKey) = tasks[t].sid)
    /\ [][ \A t \in Tasks : tasks'[t] # tasks[t] =>
              /\ \A w \in Sockets :
                    sockets[w].sid # tasks[t].sid => sockets'[w] = sockets[w]
              /\ \A o \in DOMAIN heap \ {tasks[t].sid} :
                    /\ heap'[o] = heap[o]
                    /\ \A k \in DOMAIN sessions :
                          sessions[k] = o =>
                             k \in DOMAIN sessions' /\ sessions'[k] = o
         ]_vars

C32_Witness ==
    \E t, u \in Tasks : \E w, v \in Sockets :
       /\ t < u /\ tasks[t].sessionKey = tasks[u].sessionKey
       /\ tasks[t].sid # tasks[u].sid
       /\ tasks[t].pc = "failed" /\ tasks[t].status = 404
       /\ tasks[u].pc = "read" /\ tasks[u].status = 200
       /\ Registered(tasks[u].sid)
       /\ sockets[w].sid = tasks[t].sid /\ sockets[v].sid = tasks[u].sid
       /\ Sent(w) = << HeadersFrame(404, 1), ErrorFrame(404, 0) >>
       /\ sockets[w].closeCode = 1000
       /\ Len(Sent(v)) = 2 /\ Sent(v)[1] = HeadersFrame(200, 1)
       /\ Sent(v)[2].type = "binary"
       /\ sockets[v].closeCode = Null /\ heap[tasks[u].sid].clients = {v}

(***************************************************************************)
(* C33: every binary frame and every done frame sent to a subscriber comes *)
(* after a headers frame sent to that subscriber.                          *)
(***************************************************************************)
C33_HeadersBeforeBody ==
    \A w \in Sockets :
       \A i \in Positions(w, "binary") \cup Positions(w, "done") :
          \E j \in Positions(w, "headers") : j < i

C33_Witness ==
    \E w, v \in Sockets :
       /\ sockets[w].sid = sockets[v].sid /\ w < v
       /\ ~sockets[w].headersAtJoin
       /\ sockets[v].headersAtJoin /\ sockets[v].readsAtJoin = 1
       /\ Sent(v)[1] = HeadersFrame(206, 2)
       /\ Positions(v, "binary") = {2} /\ Positions(v, "done") = {3}
       /\ Positions(w, "headers") = {1} /\ Positions(w, "binary") = {2, 3}
       /\ Positions(w, "done") = {4}

(***************************************************************************)
(* More vocabulary: what a step changes of a FileSession object.           *)
(***************************************************************************)
\* the key under which object o was registered when it was created
KeyOf(o) == sockets'[CHOOSE w \in DOMAIN sockets' : sockets'[w].sid = o].sessionKey

\* the step creates o, changes a field or the registry entry of o, or sends
\* a frame to, closes or attaches a socket that joined o
Touched(o) ==
    \/ o \notin DOMAIN heap
    \/ heap'[o] # heap[o]
    \/ Registered(o) # (\E k \in DOMAIN sessions' : sessions'[k] = o)
    \/ \E w \in DOMAIN sockets' :
          /\ sockets'[w].sid = o
          /\ \/ w \notin DOMAIN sockets
             \/ sockets'[w].sent # sockets[w].sent
             \/ sockets'[w].closeCode # sockets[w].closeCode

(***************************************************************************)
(* C34: whatever a step does (a join, a disconnect or error notification,  *)
(* a broadcast, a failure, a teardown), all the FileSession objects it     *)
(* touches were registered under one and the same key: a step for one key  *)
(* changes no field and no registry entry of a session of another key,     *)
(* sends its subscribers nothing and closes none of them.                  *)
(***************************************************************************)
C34_KeysAreIndependent ==
    [][ \A o, p \in DOMAIN heap' :
           (Touched(o) /\ Touched(p)) => KeyOf(o) = KeyOf(p) ]_vars

C34_Witness ==
    \E o, p \in Objects : \E w, v \in Sockets :
       /\ sockets[w].sid = o /\ sockets[v].sid = p
       /\ sockets[w].sessionKey # sockets[v].sessionKey
       /\ sockets[w].b2Url = sockets[v].b2Url
       /\ ~Registered(o) /\ tasks[TaskOf(o)].pc = "completed"
       /\ sockets[w].closeCode = 1000
       /\ Registered(p) /\ tasks[TaskOf(p)].pc = "text"
       /\ heap[p].clients = {v} /\ sockets[v].closeCode = Null
       /\ Sent(v) = << HeadersFrame(404, 1) >>

(***************************************************************************)
(* C35: when reading the error body of a response outside 2xx fails, the   *)
(* fetch has ended as failed with its error recorded, the session is out   *)
(* of the registry, no subscriber holds more than one error frame, and     *)
(* every subscriber whose transport stayed healthy holds the headers frame *)
(* followed by one error frame with status 500 and has been closed, once,  *)
(* with code 1000.                                                         *)
(***************************************************************************)
C35_ErrorBodyFailureStillTerminates ==
    \A t \in Tasks : (NonSuccess(t) /\ tasks[t].threw) =>
       /\ tasks[t].pc = "failed"
       /\ heap[tasks[t].sid].error # Null
       /\ ~Registered(tasks[t].sid)
       /\ \A w \in SubscribersOf(t) :
             /\ Cardinality(Terminal(w)) <= 1
             /\ Healthy(w) =>
                   /\ Len(Sent(w)) = 2
                   /\ Sent(w)[2] = ErrorFrame(500, heap[tasks[t].sid].error)
                   /\ sockets[w].closeCode = 1000
                   /\ sockets[w].closes = 1

C35_Witness ==
    \E t \in Tasks : \E w \in SubscribersOf(t) :
       /\ tasks[t].status = 404 /\ tasks[t].threw /\ tasks[t].pc = "failed"
       /\ heap[tasks[t].sid].error = 501
       /\ heap[tasks[t].sid].clients = {w}
       /\ Sent(w) = << HeadersFrame(404, 1), ErrorFrame(500, 501) >>
       /\ sockets[w].closeCode = 1000

(***************************************************************************)
(* C36: a fetch() call whose Upgrade header is not 'websocket' returns     *)
(* status 426, and one that is an upgrade but has no url parameter returns *)
(* status 400; either call leaves the registry, every FileSession object   *)
(* (client set, counter and all), every socket and every leader fetch as   *)
(* they were.  Any other call returns 101.                                 *)
(***************************************************************************)
C36_BadRequestsChangeNothing ==
    [][ \A upgradeHeader \in Upgrades : \A urlParam \in UrlParams :
           \A rangeParam \in RangeParams :
              Fetch(upgradeHeader, urlParam, rangeParam) =>
                 IF upgradeHeader # "websocket"
                 THEN /\ replied' = 426
                      /\ UNCHANGED <<sessions, heap, sockets, tasks>>
                 ELSE IF urlParam \in {Absent, << >>}
                 THEN /\ replied' = 400
                      /\ UNCHANGED <<sessions, heap, sockets, tasks>>
                 ELSE /\ replied' = 101
                      /\ Len(sockets') = Len(sockets) + 1
      ]_vars

C36_Witness ==
    /\ replied = 400
    /\ Len(sockets) = 1 /\ Len(heap) = 1 /\ Len(tasks) = 1
    /\ heap[1].clients = {1} /\ heap[1].totalClients = 1
    /\ tasks[1].pc = "fetch" /\ Registered(1)


(***************************************************************************)
(* Vocabulary for the worker-side call.                                    *)
(***************************************************************************)
Settled == call.pc \in {"returned", "thrown"}
Received(kind) == \E i \in 1..Len(call.events) : call.events[i] = kind

(***************************************************************************)
(* C37: once the socket of a coalescedFetch call has closed, whatever      *)
(* frames and socket events came before the close, the call has settled:   *)
(* it has returned a Response or it has thrown.                            *)
(***************************************************************************)
C37_SettledOnceSocketClosed ==
    call.ws = "closed" => Settled

(***************************************************************************)
(* C38: the body stream of the call has ended normally only if a done      *)
(* frame was received, and once the socket has closed without a done frame *)
(* the stream is errored.                                                  *)
(***************************************************************************)
C38_NormalEndOnlyAfterDone ==
    /\ call.stream = "closed" => Received("done")
    /\ (call.ws = "closed" /\ ~Received("done")) => call.stream = "errored"


(***************************************************************************)
(* C39: in handleB2LargeFile at most one origin request per requestKey is  *)
(* unsettled at any time: while a request made for a key is unsettled, no  *)
(* call with that key has made a second one, whatever calls, request       *)
(* failures and cleanup timers came in between.                            *)
(***************************************************************************)
C39_OneUnsettledRequestPerKey ==
    \A p, q \in DOMAIN route.promises :
       ( /\ route.promises[p].state = "pending"
         /\ route.promises[q].state = "pending"
         /\ route.promises[p].key = route.promises[q].key ) => p = q


(***************************************************************************)
(* C40: in every step the sockets on which the broker calls close() are    *)
(* exactly the members of the client set of the FileSession object that    *)
(* the step takes out of the registry, as that set is at the teardown.  A  *)
(* socket that is no longer in its object's client set, removed by a       *)
(* disconnect notification or pruned after a failed send, is sent no       *)
(* frame, is not closed and is not put back into the set.                  *)
(***************************************************************************)
C40_TeardownClosesCurrentMembers ==
    [][ \A w \in Sockets :
           LET sid == sockets[w].sid
               tornDown == /\ Registered(sid)
                           /\ ~\E k \in DOMAIN sessions' : sessions'[k] = sid
               closedNow == sockets'[w].closes > sockets[w].closes
           IN /\ closedNow <=> (tornDown /\ w \in heap'[sid].clients)
              /\ closedNow => /\ sockets'[w].closes = sockets[w].closes + 1
                              /\ sockets'[w].closeCode = CloseNormal
              /\ w \notin heap[sid].clients =>
                    /\ NewFrames(w) = << >>
                    /\ ~closedNow
                    /\ sockets'[w].closeCode = sockets[w].closeCode
                    /\ w \notin heap'[sid].clients
      ]_vars

C40_Witness ==
    \E u, v \in Sockets :
       /\ sockets[u].sid = sockets[v].sid
       /\ ~Registered(sockets[u].sid)
       /\ heap[sockets[u].sid].clients = {u}
       /\ sockets[u].closeCode = CloseNormal /\ sockets[u].closes = 1
       /\ Sent(u) = << HeadersFrame(200, 1), BinaryFrame(<<1>>), DoneFrame >>
       /\ sockets[v].transport = "broken"
       /\ sockets[v].closeCode = Null /\ sockets[v].closes = 0
       /\ Sent(v) = << HeadersFrame(200, 1) >>

====
